---- MODULE Spec2Model ----
(***************************************************************************)
(* findimg: the query path of the interactive image browser.               *)
(*                                                                         *)
(* App::search (src/src/main.rs:541-728) runs on the main loop's thread.   *)
(* It spawns a detached indicator thread, dispatches on the checked item   *)
(* of the mode list, embeds the query, ranks every stored image, decodes   *)
(* the top SEARCH_RESULTS of them, sends the kill message on its channel   *)
(* and returns.  handle_events (main.rs:449-454) stores the returned       *)
(* ranking in search_results.                                              *)
(*                                                                         *)
(* The specifications below share one set of definitions:                  *)
(*   Spec      the main thread and its indicator threads, interleaved;     *)
(*   LiveSpec  Spec in Ranking mode, with weak fairness of every indicator;*)
(*   QuerySpec the main thread alone (indicators not scheduled), with the  *)
(*             editing keys, so that queries follow one another;           *)
(*   RankSpec  the ranking of search() applied to arbitrary score vectors; *)
(*   LayoutSpec  the layout of the image cells in App::draw, applied to    *)
(*             every count of cells and a range of image blocks;           *)
(*   WindowSpec  the result window of search() and the cells of the draw   *)
(*             that follows, applied to rankings longer than the window;   *)
(*   KeySpec   the keys of Normal mode, the mode popup and the draws of    *)
(*             the main loop;                                              *)
(*   BuildSpec the store build of App::default, run after run of the       *)
(*             program over one image directory;                           *)
(*   ExtractSpec  extract_image_urls and the file names of scrape(),       *)
(*             applied twice to one page text;                             *)
(*   EditSpec  the editing keys on a search string with a two-byte         *)
(*             character;                                                  *)
(*   ToastSpec  the toast rectangles of Messages::draw for a terminal      *)
(*             width and message texts;                                    *)
(*   MainSpec  main() from the arguments to the start of the application,  *)
(*             with the scrape download by download.                       *)
(*                                                                         *)
(* Scores are f32 in the source.  They are integers here (hundredths);     *)
(* NaN, on which the sort's expect() panics, is outside the score domain.  *)
(* Termination of the process (exit, or the teardown after a panic of the  *)
(* main thread) is not a step of the model: a panic stops the main thread  *)
(* and is recorded in main_pc.                                             *)
(***************************************************************************)
EXTENDS Integers, Sequences, FiniteSets, TLC

\* ---- bounds of the model ----
NImages == 3
MaxScore == 1
MaxSearchLen == 3
MaxQueries == 2
MaxWidth == 12
MaxHeight == 6
MaxRank == 22
MaxMessages == 2
MaxBuilds == 2
MaxSnippets == 3
MaxArgs == 4
MaxTextLen == 8
MaxTermWidth == 16

\* ---- program constants ----
SEARCH_RESULTS == 20
AnimationLen == 10

Images == 1..NImages
Alphabet == {"a", "-"}

Min(a, b) == IF a <= b THEN a ELSE b

\* Option<T>: None is the empty sequence, Some(v) the sequence of v alone
None == <<>>

Some(v) == <<v>>

\* ------------------------------------------------------------------------
\* Ranking: the loops over images_embedding and the sort_by calls of search()
\* ------------------------------------------------------------------------

\* The comparator closures handed to sort_by: TRUE iff a must not come after
\* b, i.e. the closure does not return Greater for (a, b).
\* Descending:  b.1.partial_cmp(&a.1)   Ascending:  a.1.partial_cmp(&b.1)
DescLe(a, b) == b[2] <= a[2]

AscLe(a, b) == a[2] <= b[2]

\* Vec::sort_by is a stable sort: insertion of x behind every element that
\* does not have to come after it.
RECURSIVE InsertDesc(_, _)
InsertDesc(s, x) ==
    IF s = <<>> THEN <<x>>
    ELSE IF DescLe(Head(s), x) THEN <<Head(s)>> \o InsertDesc(Tail(s), x)
    ELSE <<x>> \o s

RECURSIVE InsertAsc(_, _)
InsertAsc(s, x) ==
    IF s = <<>> THEN <<x>>
    ELSE IF AscLe(Head(s), x) THEN <<Head(s)>> \o InsertAsc(Tail(s), x)
    ELSE <<x>> \o s

RECURSIVE SortDesc(_)
SortDesc(s) ==
    IF s = <<>> THEN <<>>
    ELSE InsertDesc(SortDesc(SubSeq(s, 1, Len(s) - 1)), s[Len(s)])

RECURSIVE SortAsc(_)
SortAsc(s) ==
    IF s = <<>> THEN <<>>
    ELSE InsertAsc(SortAsc(SubSeq(s, 1, Len(s) - 1)), s[Len(s)])

\* for embedding in &self.images_embedding { embed_rank.push((path, score)) }
\* order: the iteration order of the HashMap; score: path -> score.
PushScores(order, score) == [k \in 1..Len(order) |-> <<order[k], score[order[k]]>>]

\* (variant of SubtractScores: `+=` in place of `-=`)
AddScores(rank, neg) ==
    [k \in 1..Len(rank) |-> <<rank[k][1], rank[k][2] + neg[rank[k][1]]>>]

\* for embedding in &mut embed_rank { embedding.1 -= score }
SubtractScores(rank, neg) ==
    [k \in 1..Len(rank) |-> <<rank[k][1], rank[k][2] - neg[rank[k][1]]>>]

\* The four branches of search() once the query is embedded.
RankSearch(order, score) == SortDesc(PushScores(order, score))

\* (variant of RankNegative: the comparator of the Search branch)
RankNegativeDescending(order, score) == SortDesc(PushScores(order, score))

RankNegative(order, score) == SortAsc(PushScores(order, score))

RankRanking(order, pos, neg) == SortDesc(SubtractScores(PushScores(order, pos), neg))

RankImage2Image(order, score) == SortDesc(PushScores(order, score))

\* ------------------------------------------------------------------------
\* The query string and the embedding model (cliprs::ClipModel, external)
\* ------------------------------------------------------------------------

\* self.search is a sequence of characters.
Strings == UNION {[1..n -> Alphabet] : n \in 0..MaxSearchLen}

RECURSIVE FirstDash(_, _)
FirstDash(s, k) ==
    IF k > Len(s) THEN 0
    ELSE IF s[k] = "-" THEN k
    ELSE FirstDash(s, k + 1)

\* (variant of Split: split_once, the rest after the first separator kept whole)
SplitOnce(s) ==
    LET k == FirstDash(s, 1)
    IN  IF k = 0 THEN <<s>> ELSE <<SubSeq(s, 1, k - 1), SubSeq(s, k + 1, Len(s))>>

\* search_clone.split("-").collect(): the pieces between the separators;
\* a string without separator is one piece.
RECURSIVE Split(_)
Split(s) ==
    LET k == FirstDash(s, 1)
    IN  IF k = 0 THEN <<s>>
        ELSE <<SubSeq(s, 1, k - 1)>> \o Split(SubSeq(s, k + 1, Len(s)))

RECURSIVE CountA(_)
CountA(s) == IF s = <<>> THEN 0 ELSE (IF Head(s) = "a" THEN 1 ELSE 0) + CountA(Tail(s))

\* ClipModel::embed_text / embed_image when they return Ok: the embedding is
\* a function of the input alone.  (Whether a call returns Ok or Err is an
\* input of the search step.)
EmbedText(s) == CountA(s)

EmbedImage(s) == CountA(s) + 1

\* ClipModel::embed_compare(query embedding, image vector): the external
\* comparator is a fixed function, held in compare_tab.
VARIABLE compare_tab

Embeddings == 0..(MaxSearchLen + 1)

EmbedCompare(e, v) == compare_tab[e][v]

\* one deterministic instance of the comparator
SampleCompare == [e \in Embeddings |-> [v \in Images |-> (e * v) % 3]]

\* score of every stored image against one query embedding
ScoresOf(e, store) == [p \in DOMAIN store |-> EmbedCompare(e, store[p])]

\* ------------------------------------------------------------------------
\* App::search, from the mode dispatch to its return
\* ------------------------------------------------------------------------

\* modesel_list.items as App::default builds them (with the given statuses)
OptionNames == <<"Search", "Negative Prompt", "Ranking", "Image 2 Image">>

ItemsWith(checked) ==
    [k \in 1..Len(OptionNames) |->
        [option |-> OptionNames[k],
         status |-> IF k = checked THEN "Checked" ELSE "Unchecked"]]

\* .items.iter().find(|e| e.option == name).is_some_and(|e| e.status == Checked)
FindChecked(items, name) ==
    /\ \E k \in 1..Len(items) : items[k].option = name
    /\ LET k == CHOOSE j \in 1..Len(items) :
                    /\ items[j].option = name
                    /\ \A h \in 1..(j - 1) : items[h].option # name
       IN  items[k].status = "Checked"

\* Message::new(text, MessageSeverity::Error, Duration::from_secs(3))
ErrorMessage(text) == [text |-> text, severity |-> "Error", secs |-> 3]

\* What one run of search() does after the spawn, as a record:
\*   ret     "Some" | "None" | "panic"
\*   kill    send_kill.send(()) was executed before leaving
\*   msgs    the messages added to self.notifications
\*   rank    embed_rank at the end of the branch
\*   embeds  the number of calls of embed_text / embed_image
\*   failed  some embed call returned Err
\*   malformed  the Ranking query was refused for its separators
\* (variant of Ranked: an empty ranking reported as a failure)
RankedOrNoResults(rank, embeds) ==
    IF rank = <<>>
    THEN [ret |-> "None", kill |-> TRUE,
          msgs |-> <<[text |-> "no results", severity |-> "Error", secs |-> 3]>>,
          rank |-> <<>>, embeds |-> embeds, failed |-> FALSE, malformed |-> FALSE]
    ELSE [ret |-> "Some", kill |-> TRUE, msgs |-> <<>>, rank |-> rank,
          embeds |-> embeds, failed |-> FALSE, malformed |-> FALSE]

Ranked(rank, embeds) ==
    [ret |-> "Some", kill |-> TRUE, msgs |-> <<>>, rank |-> rank,
     embeds |-> embeds, failed |-> FALSE, malformed |-> FALSE]

EmbedError(text, embeds) ==
    [ret |-> "None", kill |-> TRUE, msgs |-> <<ErrorMessage(text)>>, rank |-> <<>>,
     embeds |-> embeds, failed |-> TRUE, malformed |-> FALSE]

\* (variant of MalformedQuery: the early return without the send)
MalformedQueryUnsent ==
    [ret |-> "None", kill |-> FALSE, msgs |-> <<>>, rank |-> <<>>,
     embeds |-> 0, failed |-> FALSE, malformed |-> TRUE]

\* search_split.len() != 2 (main.rs:636-639)
MalformedQuery ==
    [ret |-> "None", kill |-> TRUE, msgs |-> <<>>, rank |-> <<>>,
     embeds |-> 0, failed |-> FALSE, malformed |-> TRUE]

\* Result::unwrap on an Err: the main thread panics inside search(); send_kill
\* is dropped unsent.
UnwrapPanic(embeds) ==
    [ret |-> "panic", kill |-> FALSE, msgs |-> <<>>, rank |-> <<>>,
     embeds |-> embeds, failed |-> TRUE, malformed |-> FALSE]

\* "Search" branch (main.rs:576-597)
SearchBranch(query, store, order, ok) ==
    IF ~ok THEN EmbedError("embed_text error", 1)
    ELSE Ranked(RankSearch(order, ScoresOf(EmbedText(query), store)), 1)

\* "Negative Prompt" branch (main.rs:605-626)
NegativeBranch(query, store, order, ok) ==
    IF ~ok THEN EmbedError("embed_text error", 1)
    ELSE Ranked(RankNegative(order, ScoresOf(EmbedText(query), store)), 1)

\* "Ranking" branch (main.rs:634-671)
RankingBranch(query, store, order, okPos, okNeg) ==
    LET search_split == Split(query)
    IN  IF Len(search_split) # 2 THEN MalformedQuery
        ELSE IF ~okPos /\ ~okNeg THEN EmbedError("Failed to embed text", 2)
        ELSE IF ~okPos \/ ~okNeg THEN UnwrapPanic(2)
        ELSE Ranked(RankRanking(order,
                                ScoresOf(EmbedText(search_split[1]), store),
                                ScoresOf(EmbedText(search_split[2]), store)), 2)

\* "Image 2 Image" branch (main.rs:679-702)
Image2ImageBranch(query, store, order, ok) ==
    IF ~ok THEN EmbedError("embed_image error", 1)
    ELSE Ranked(RankImage2Image(order, ScoresOf(EmbedImage(query), store)), 1)

\* The if / else-if chain over the mode list (main.rs:569-703).  ok1 and ok2
\* are the outcomes of the first and the second embed call, when made.
SearchDispatch(items, query, store, order, ok1, ok2) ==
    IF FindChecked(items, "Search") THEN SearchBranch(query, store, order, ok1)
    ELSE IF FindChecked(items, "Negative Prompt") THEN NegativeBranch(query, store, order, ok1)
    ELSE IF FindChecked(items, "Ranking") THEN RankingBranch(query, store, order, ok1, ok2)
    ELSE IF FindChecked(items, "Image 2 Image") THEN Image2ImageBranch(query, store, order, ok1)
    ELSE Ranked(<<>>, 0)

\* main.rs:705-723: of the first SEARCH_RESULTS entries of embed_rank, those
\* whose file opens and decodes, in rank order.
RECURSIVE DecodeAll(_, _)
DecodeAll(rank, files) ==
    IF rank = <<>> THEN <<>>
    ELSE IF Head(rank)[1] \in files
         THEN <<[file_path |-> Head(rank)[1], confidence |-> Head(rank)[2],
                 last_area |-> None]>> \o DecodeAll(Tail(rank), files)
         ELSE DecodeAll(Tail(rank), files)

\* (variant of DecodeTop: the first SEARCH_RESULTS of the entries that decode)
DecodeTopRefilled(rank, files) ==
    SubSeq(DecodeAll(rank, files), 1, Min(Len(DecodeAll(rank, files)), SEARCH_RESULTS))

DecodeTop(rank, files) == DecodeAll(SubSeq(rank, 1, Min(Len(rank), SEARCH_RESULTS)), files)

\* ------------------------------------------------------------------------
\* The image cells of App::draw
\* ------------------------------------------------------------------------

\* self.search_results.len().min(10) (main.rs:198)
MaxCells == 10

Max(a, b) == IF a >= b THEN a ELSE b

Rect(x, y, width, height) == [x |-> x, y |-> y, width |-> width, height |-> height]

\* Block::bordered().inner(area): one column and one row off each side,
\* saturating
Inner(area) ==
    Rect(Min(area.x + 1, area.x + area.width), Min(area.y + 1, area.y + area.height),
         Max(area.width - 2, 0), Max(area.height - 2, 0))

\* num / den rounded to the nearest integer
RoundDiv(num, den) == (2 * num + den) \div (2 * den)

RECURSIVE Cumulated(_, _)
Cumulated(shares, k) == IF k = 0 THEN 0 ELSE shares[k] + Cumulated(shares, k - 1)

\* Layout::split along one axis for constraints that share the whole length
\* (percentages adding up to 100, n ratios of 1/n): adjacent segments that
\* cover the length, each boundary at the rounded cumulated share.
Segments(start, length, shares, total) ==
    [k \in 1..Len(shares) |->
        LET lo == RoundDiv(Cumulated(shares, k - 1) * length, total)
            hi == RoundDiv(Cumulated(shares, k) * length, total)
        IN  [start |-> start + lo, size |-> hi - lo]]

\* Layout::horizontal(constraints).split(area)
Horizontal(shares, total, area) ==
    LET seg == Segments(area.x, area.width, shares, total)
    IN  [k \in 1..Len(shares) |-> Rect(seg[k].start, area.y, seg[k].size, area.height)]

\* Layout::vertical(constraints).split(area)
Vertical(shares, total, area) ==
    LET seg == Segments(area.y, area.height, shares, total)
    IN  [k \in 1..Len(shares) |-> Rect(area.x, seg[k].start, area.width, seg[k].size)]

\* (variant of RowCells: the cells of a row one below the other)
RowCellsStacked(row_area, n) == Vertical([k \in 1..n |-> 1], n, row_area)

\* Layout::horizontal(vec![Constraint::Ratio(1, n as u32); n]).split(row)
\* (main.rs:232-233, 243-244, 251-252)
RowCells(row_area, n) == Horizontal([k \in 1..n |-> 1], n, row_area)

\* r_constraints (main.rs:214-224), in percent
RowConstraints(remaining) ==
    IF remaining <= 2 THEN <<100>>
    ELSE IF remaining <= 5 THEN <<50, 50>>
    ELSE <<33, 33, 34>>

\* n of the first row (main.rs:231)
FirstRowCount(remaining) == IF remaining <= 2 THEN remaining ELSE 2

\* (variant of SecondRowCount: without the limit)
SecondRowCountUnlimited(remaining, r_idx) == remaining - r_idx

\* n of the second row (main.rs:239-241)
SecondRowCount(remaining, r_idx) ==
    LET rem == remaining - r_idx
        limit == IF remaining <= 5 THEN rem ELSE 3
    IN  Min(rem, limit)

\* (variant of ThirdRowCount: with the limit of the second row)
ThirdRowCountLimited(remaining, r_idx) == Min(remaining - r_idx, 3)

\* rem of the third row (main.rs:250)
ThirdRowCount(remaining, r_idx) == remaining - r_idx

\* The rows of the right half for results_count >= 2 (main.rs:211-254): a
\* sequence of rows, each the sequence of its cells from left to right.
RightRows(results_count, right_area) ==
    LET remaining == results_count - 1
        r_rows == Vertical(RowConstraints(remaining), 100, right_area)
        n1 == FirstRowCount(remaining)
        row1 == IF remaining > 0 THEN <<RowCells(r_rows[1], n1)>> ELSE <<>>
        idx1 == IF remaining > 0 THEN n1 ELSE 0
        n2 == SecondRowCount(remaining, idx1)
        row2 == IF remaining > idx1 THEN <<RowCells(r_rows[2], n2)>> ELSE <<>>
        idx2 == IF remaining > idx1 THEN idx1 + n2 ELSE idx1
        row3 == IF remaining > idx2
                THEN <<RowCells(r_rows[3], ThirdRowCount(remaining, idx2))>>
                ELSE <<>>
    IN  row1 \o row2 \o row3

RECURSIVE Flatten(_)
Flatten(rows) == IF rows = <<>> THEN <<>> ELSE Head(rows) \o Flatten(Tail(rows))

\* main_split (main.rs:205-207)
MainSplit(img_block) == Horizontal(<<50, 50>>, 100, img_block)

\* areas (main.rs:198-255) for results_count cells in img_block
LayoutAreas(results_count, img_block) ==
    IF results_count = 0 THEN <<>>
    ELSE IF results_count = 1 THEN <<img_block>>
    ELSE <<MainSplit(img_block)[1]>>
         \o Flatten(RightRows(results_count, MainSplit(img_block)[2]))

\* (variant of ResultsCount: a cell for every result)
ResultsCountUncapped(results) == Len(results)

\* results_count (main.rs:198)
ResultsCount(results) == Min(Len(results), MaxCells)

\* [help_area, input_area, img_area] (main.rs:123-128) for a terminal of at
\* least 5 rows: one row of help, three of input, the rest for the images
ImgArea(size) == Rect(0, 4, size.width, Max(size.height - 4, 0))

\* (variant of NeedsEncode: compares the sizes only)
NeedsEncodeOnResize(last_area, inner_area) ==
    \/ last_area = None
    \/ last_area[1].width # inner_area.width
    \/ last_area[1].height # inner_area.height

\* result.last_area != Some(inner_area) (main.rs:276)
NeedsEncode(last_area, inner_area) == last_area # Some(inner_area)

\* The loop over the areas (main.rs:257-288) for the image block of a
\* terminal of the given size:
\*   results  search_results with the last_area of every drawn cell set
\*   cells    per area, the result it renders, its title and its regions
\*   encoded  the indexes (from 0) of the cells whose image was re-encoded
DrawCells(results, size) ==
    LET areas == LayoutAreas(ResultsCount(results), Inner(ImgArea(size)))
        drawn == {i \in 1..Len(areas) : i <= Len(results)}
    IN  [results |-> [i \in 1..Len(results) |->
                        IF i \in drawn
                        THEN [results[i] EXCEPT !.last_area = Some(Inner(areas[i]))]
                        ELSE results[i]],
         cells |-> [i \in 1..Len(areas) |->
                        IF i \in drawn
                        THEN [file_path |-> results[i].file_path,
                              confidence |-> results[i].confidence,
                              highest |-> (i - 1 = 0),
                              area |-> areas[i],
                              inner_area |-> Inner(areas[i])]
                        ELSE [file_path |-> "none", confidence |-> 0, highest |-> FALSE,
                              area |-> areas[i], inner_area |-> Inner(areas[i])]],
         encoded |-> {i - 1 : i \in {j \in drawn :
                                       NeedsEncode(results[j].last_area, Inner(areas[j]))}}]

\* ------------------------------------------------------------------------
\* State
\* ------------------------------------------------------------------------
VARIABLES
    modesel_items,     \* App.modesel_list.items
    search,            \* App.search
    char_index,        \* App.char_index
    input_mode,        \* App.input_mode
    current_element,   \* App.current_element
    search_results,    \* App.search_results
    notifications,     \* App.notifications.messages
    images_embedding,  \* App.images_embedding: path -> vector
    iter_order,        \* the iteration order of the images_embedding HashMap
    image_files,       \* the paths whose file opens and decodes
    main_pc,           \* main thread: "idle" (in App::run), "searching", "panicked"
    ind,               \* one record per spawned indicator thread, in spawn order
    kill_chan,         \* per search(): its channel: "open" (nothing sent),
                       \* "sent" (message queued), "taken" (received by the
                       \* indicator), "dropped" (sender dropped, nothing sent)
    last_call,         \* what the last finished search() did
    rk_out,            \* RankSpec: what the dispatch of search() computed
    mode,              \* App.mode
    modesel_open,      \* App.modesel_open
    selected,          \* App.modesel_list.state.selected(): None or Some(index from 0)
    button_pressed,    \* App.button_pressed
    clear_terminal,    \* App.clear_terminal
    exit,              \* App.exit
    loop_pc,           \* App::run: "draw" (terminal.draw is next) or "events"
                       \* (handle_events is next)
    term,              \* frame.area() of the next draw: [width, height]
    shown,             \* per entry of search_results: the region its image was
                       \* rendered in by the previous draw, None before the first
    encoded,           \* indexes (from 0) of the cells the last draw re-encoded
    lay_in,            \* LayoutSpec: [n, block], the inputs of the layout packer
    lay_out,           \* LayoutSpec: what the layout packer produced
    win_in,            \* WindowSpec: [rank, files], the inputs of the result window
    win_out,           \* WindowSpec: the results kept and the cells drawn
    build_pc,          \* App::default: "scan", "embed", "persist", "done", "panicked"
    scan,              \* images_paths: the supported files of images/ in scan order
    embed_ok,          \* the images for which embed_image returns Ok
    build_index,       \* the index (from 0) of the image the loop is at
    mem,               \* image_embeddings: path -> vector, in memory
    disk,              \* the <path>.embed records on disk: path -> vector
    embed_calls,       \* calls of embed_image in this run of the program
    builds,            \* runs of the program so far
    page,              \* ExtractSpec: the text of the album page
    ext_out,           \* ExtractSpec: per scrape, its (url, filename) pairs in order
    argv,              \* MainSpec: std::env::args() after the program name
    cli_pc,            \* MainSpec: where main() is
    exit_code,         \* MainSpec: None, or Some(status) once the process has exited
    image_urls,        \* MainSpec: image_urls of scrape()
    downloads,         \* MainSpec: per download_image call, [url, filename, ok]
    toast_in,          \* ToastSpec: terminal width, text lengths, build profile
    toast_out          \* ToastSpec: what Messages::draw did with toast_in

appVars == <<modesel_items, search, char_index, input_mode, current_element, search_results,
             notifications, images_embedding, iter_order, image_files, compare_tab>>

runVars == <<main_pc, ind, kill_chan, last_call>>

rankVars == <<rk_out>>

keyVars == <<mode, modesel_open, selected, button_pressed, clear_terminal, exit, loop_pc,
             term, shown, encoded>>

layVars == <<lay_in, lay_out>>

winVars == <<win_in, win_out>>

buildVars == <<build_pc, scan, embed_ok, build_index, mem, disk, embed_calls, builds>>

webVars == <<page, ext_out>>

cliVars == <<argv, cli_pc, exit_code, image_urls, downloads>>

toastVars == <<toast_in, toast_out>>

sysVars == <<buildVars, webVars, cliVars, toastVars>>

auxVars == <<keyVars, layVars, winVars, sysVars>>

vars == <<appVars, runVars, rankVars, auxVars>>

NoCall == [mode |-> "none", ret |-> "none", embeds |-> 0, failed |-> FALSE, malformed |-> FALSE]

IdentityOrder == [k \in 1..NImages |-> k]

\* App::default (main.rs:812-842) with the store built over Images
AppDefault ==
    /\ modesel_items = ItemsWith(1)
    /\ search = <<>>
    /\ char_index = 0
    /\ input_mode = "Normal"
    /\ current_element = "Search"
    /\ search_results = <<>>
    /\ notifications = <<>>
    /\ images_embedding = [p \in Images |-> p]
    /\ iter_order = IdentityOrder
    /\ image_files = Images
    /\ compare_tab = SampleCompare

RunIdle ==
    /\ main_pc = "idle"
    /\ ind = <<>>
    /\ kill_chan = <<>>
    /\ last_call = NoCall

RankIdle == rk_out = [done |-> FALSE, rank |-> <<>>]

CheckedMode(items) ==
    IF FindChecked(items, "Search") THEN "Search"
    ELSE IF FindChecked(items, "Negative Prompt") THEN "Negative Prompt"
    ELSE IF FindChecked(items, "Ranking") THEN "Ranking"
    ELSE IF FindChecked(items, "Image 2 Image") THEN "Image 2 Image"
    ELSE "none"

\* (variant of SearchEnumOf: every option taken by the last arm)
SearchEnumFallback(option) == "Search"

\* the SearchEnum that toggle_status (main.rs:751-757) assigns for an option
SearchEnumOf(option) ==
    IF option = "Search" THEN "Search"
    ELSE IF option = "Negative Prompt" THEN "NegativePrompt"
    ELSE IF option = "Ranking" THEN "Ranking"
    ELSE IF option = "Image 2 Image" THEN "Image2Image"
    ELSE "Search"

\* a terminal of MaxWidth + 8 columns and MaxHeight + 6 rows
DefaultTerm == [width |-> MaxWidth + 8, height |-> MaxHeight + 6]

\* the fields of App::default (main.rs:812-842) that only KeySpec changes
KeyFields ==
    /\ mode = SearchEnumOf(CheckedMode(modesel_items))
    /\ modesel_open = FALSE
    /\ selected = None
    /\ button_pressed = FALSE
    /\ clear_terminal = FALSE
    /\ exit = FALSE
    /\ term = DefaultTerm
    /\ shown = [i \in 1..Len(search_results) |-> None]
    /\ encoded = {}

\* the main loop waits in handle_events
KeyIdle ==
    /\ KeyFields
    /\ loop_pc = "events"

\* the store is built over Images, no scrape was asked for
BuildIdle ==
    /\ build_pc = "done"
    /\ scan = IdentityOrder
    /\ embed_ok = Images
    /\ build_index = NImages
    /\ mem = [p \in Images |-> p]
    /\ disk = [p \in Images |-> p]
    /\ embed_calls = NImages
    /\ builds = 1

WebIdle ==
    /\ page = <<>>
    /\ ext_out = <<>>

CliIdle ==
    /\ argv = <<"model">>
    /\ cli_pc = "app"
    /\ exit_code = None
    /\ image_urls = <<>>
    /\ downloads = <<>>

ToastIdle ==
    /\ toast_in = [size_x |-> 80, lens |-> <<>>, profile |-> "release"]
    /\ toast_out = [pc |-> "start", areas |-> <<>>]

SysIdle == BuildIdle /\ WebIdle /\ CliIdle /\ ToastIdle

LayIdle ==
    /\ lay_in = [n |-> 0, block |-> Rect(0, 0, 0, 0)]
    /\ lay_out = [done |-> FALSE, rows |-> <<>>, areas |-> <<>>]

WinIdle ==
    /\ win_in = [rank |-> <<>>, files |-> {}]
    /\ win_out = [pc |-> "start", results |-> <<>>, cells |-> <<>>]

\* ------------------------------------------------------------------------
\* Keys of the main loop (App::handle_events)
\* ------------------------------------------------------------------------

\* Normal mode, Search element, Enter (main.rs:415)
StartEditing ==
    /\ main_pc = "idle"
    /\ ~exit
    /\ loop_pc = "events"
    /\ input_mode = "Normal"
    /\ current_element = "Search"
    /\ input_mode' = "Editing"
    /\ UNCHANGED <<modesel_items, search, char_index, current_element, search_results,
                   notifications, images_embedding, iter_order, image_files, compare_tab>>
    /\ UNCHANGED <<runVars, rankVars, auxVars>>

\* bytes of the UTF-8 encoding of a character
ByteLen(c) == IF c = "é" THEN 2 ELSE 1

RECURSIVE ByteCount(_)
ByteCount(s) == IF s = <<>> THEN 0 ELSE ByteLen(Head(s)) + ByteCount(Tail(s))

\* App::byte_index (main.rs:501-507)
byte_index(s, ci) == IF ci < Len(s) THEN ByteCount(SubSeq(s, 1, ci)) ELSE ByteCount(s)

\* String::insert(idx, ch): idx is a byte offset on a character boundary
StringInsert(s, idx, ch) ==
    LET k == CHOOSE j \in 0..Len(s) : ByteCount(SubSeq(s, 1, j)) = idx
    IN  SubSeq(s, 1, k) \o <<ch>> \o SubSeq(s, k + 1, Len(s))

\* App::clamp_cursor (main.rs:491-493)
clamp_cursor(s, pos) == IF pos < 0 THEN 0 ELSE Min(pos, Len(s))

\* Editing mode, a character key: App::enter_char (main.rs:495-499)
EnterChar(c) ==
    /\ main_pc = "idle"
    /\ input_mode = "Editing"
    /\ Len(search) < MaxSearchLen
    /\ search' = StringInsert(search, byte_index(search, char_index), c)
    /\ char_index' = clamp_cursor(search', char_index + 1)
    /\ UNCHANGED <<modesel_items, input_mode, current_element, search_results,
                   notifications, images_embedding, iter_order, image_files, compare_tab>>
    /\ UNCHANGED <<runVars, rankVars, auxVars>>

\* chars().take(n) and chars().skip(n)
Take(s, n) == SubSeq(s, 1, Min(n, Len(s)))
Skip(s, n) == IF n >= Len(s) THEN <<>> ELSE SubSeq(s, n + 1, Len(s))

\* Editing mode, Backspace: App::delete_char (main.rs:516-525)
DeleteChar ==
    /\ main_pc = "idle"
    /\ input_mode = "Editing"
    /\ IF char_index # 0
       THEN /\ search' = Take(search, char_index - 1) \o Skip(search, char_index)
            /\ char_index' = clamp_cursor(search', char_index - 1)
       ELSE UNCHANGED <<search, char_index>>
    /\ UNCHANGED <<modesel_items, input_mode, current_element, search_results,
                   notifications, images_embedding, iter_order, image_files, compare_tab>>
    /\ UNCHANGED <<runVars, rankVars, auxVars>>

\* ------------------------------------------------------------------------
\* search() on the main thread
\* ------------------------------------------------------------------------

\* Editing mode, Enter: search() up to and including thread::spawn
\* (main.rs:450-451, 541-565)
SearchSpawn ==
    /\ main_pc = "idle"
    /\ input_mode = "Editing"
    /\ Len(ind) < MaxQueries
    /\ main_pc' = "searching"
    /\ kill_chan' = Append(kill_chan, "open")
    /\ ind' = Append(ind, [pc |-> "frame", frame |-> 0, running |-> TRUE, last |-> "none"])
    /\ UNCHANGED <<last_call, appVars, rankVars, auxVars>>

\* (variant of StoreRead: the loop over the map drains it)
StoreDrained(store) == <<>>

\* images_embedding after the loops of search(): they borrow the map,
\* `for embedding in &self.images_embedding` and
\* `&self.images_embedding[&embedding.0]` (main.rs:589, 618, 656, 664, 694)
StoreRead(store) == store

\* The rest of search() and the assignment in handle_events
\* (main.rs:567-727, 451-453).  The send is the last shared effect of
\* search(); what follows it is local to the main thread.
SearchFinish ==
    /\ main_pc = "searching"
    /\ \E ok1 \in BOOLEAN, ok2 \in BOOLEAN :
         LET out == SearchDispatch(modesel_items, search, images_embedding,
                                   iter_order, ok1, ok2)
             t == Len(ind)
         IN  /\ kill_chan' = [kill_chan EXCEPT ![t] = IF out.kill THEN "sent" ELSE "dropped"]
             /\ notifications' = notifications \o out.msgs
             /\ search_results' = IF out.ret = "Some"
                                  THEN DecodeTop(out.rank, image_files)
                                  ELSE search_results
             /\ main_pc' = IF out.ret = "panic" THEN "panicked" ELSE "idle"
             /\ last_call' = [mode |-> CheckedMode(modesel_items), ret |-> out.ret,
                              embeds |-> out.embeds, failed |-> out.failed,
                              malformed |-> out.malformed]
    /\ images_embedding' = StoreRead(images_embedding)
    /\ UNCHANGED <<ind, modesel_items, search, char_index, input_mode, current_element,
                   iter_order, image_files, compare_tab, rankVars, auxVars>>

\* ------------------------------------------------------------------------
\* The indicator thread (main.rs:547-565)
\* ------------------------------------------------------------------------

\* (variant of TryRecvIsOk: the result of try_recv ignored)
TryRecvNever(chan) == FALSE

\* recv_kill.try_recv().is_ok(): Err(Empty) and Err(Disconnected) are not ok
TryRecvIsOk(chan) == chan = "sent"

\* One iteration of `for frame in &animation`: try_recv, print the frame,
\* flush, sleep; then the loop conditions.
IndicatorFrame(t) ==
    /\ ind[t].pc = "frame"
    /\ LET got == TryRecvIsOk(kill_chan[t])
           running == IF got THEN FALSE ELSE ind[t].running
           lastFrame == ind[t].frame = AnimationLen - 1
       IN  /\ kill_chan' = [kill_chan EXCEPT ![t] = IF got THEN "taken" ELSE @]
           /\ ind' = [ind EXCEPT ![t] =
                        [pc |-> IF lastFrame /\ ~running THEN "clear" ELSE "frame",
                         frame |-> IF lastFrame THEN 0 ELSE ind[t].frame + 1,
                         running |-> running,
                         last |-> "glyph"]]
    /\ UNCHANGED <<main_pc, last_call, appVars, rankVars, auxVars>>

\* After the while loop: print " " at the coordinate, flush, thread ends.
IndicatorClear(t) ==
    /\ ind[t].pc = "clear"
    /\ ind' = [ind EXCEPT ![t] = [@ EXCEPT !.pc = "done", !.last = "blank"]]
    /\ UNCHANGED <<main_pc, kill_chan, last_call, appVars, rankVars, auxVars>>

\* ------------------------------------------------------------------------
\* RankSpec: the dispatch of search() over arbitrary comparator scores
\* ------------------------------------------------------------------------
Orders(S) ==
    {f \in [1..Cardinality(S) -> S] : \A a, b \in 1..Cardinality(S) : a # b => f[a] # f[b]}

ScoreVectors == [Images -> 0..MaxScore]

\* the scores of spec.md section 8, item 4, in hundredths
ExamplePos == [p \in Images |-> IF p = 1 THEN 90 ELSE IF p = 2 THEN 50 ELSE 10]

ExampleNeg == [p \in Images |-> IF p = 1 THEN 80 ELSE IF p = 2 THEN 10 ELSE 5]

\* the query "a-": its text and its first piece embed to 1 (as an image
\* path, to 2), its second piece, the empty text, to 0
RankQuery == <<"a", "-">>

\* Any mode, any iteration order of the store, any scores of the comparator
\* for the embeddings RankQuery gives rise to: the empty second piece is
\* embedded in Ranking mode only.
RankInit ==
    /\ \E k \in 1..Len(OptionNames) : modesel_items = ItemsWith(k)
    /\ search = RankQuery
    /\ char_index = Len(search)
    /\ input_mode = "Editing"
    /\ current_element = "Search"
    /\ search_results = <<>>
    /\ notifications = <<>>
    /\ images_embedding = [p \in Images |-> p]
    /\ iter_order \in Orders(Images)
    /\ image_files = Images
    /\ \E pos \in ScoreVectors \cup {ExamplePos},
          neg \in IF modesel_items = ItemsWith(3) THEN ScoreVectors \cup {ExampleNeg}
                  ELSE {ExampleNeg} :
         compare_tab = [e \in Embeddings |-> IF e = 0 THEN neg ELSE pos]
    /\ RunIdle
    /\ RankIdle
    /\ SysIdle
    /\ KeyIdle
    /\ LayIdle
    /\ WinIdle

\* embed_rank as the checked branch of search() leaves it when every embed
\* call returns Ok
RankApply ==
    /\ ~rk_out.done
    /\ rk_out' = [done |-> TRUE,
                  rank |-> SearchDispatch(modesel_items, search, images_embedding,
                                          iter_order, TRUE, TRUE).rank]
    /\ UNCHANGED <<appVars, runVars, auxVars>>

RankNext == RankApply

RankSpec == RankInit /\ [][RankNext]_vars

\* ------------------------------------------------------------------------
\* Spec: the main thread and the indicator threads
\* ------------------------------------------------------------------------

\* a query with one separator and a query with two
SampleQueries == {<<"a", "-">>, <<"-", "-">>}

Init ==
    /\ \E k \in 1..Len(OptionNames) : modesel_items = ItemsWith(k)
    /\ search \in SampleQueries
    /\ char_index = Len(search)
    /\ input_mode = "Normal"
    /\ current_element = "Search"
    /\ search_results = <<>>
    /\ notifications = <<>>
    /\ images_embedding = [p \in Images |-> p]
    /\ iter_order = IdentityOrder
    /\ image_files = Images
    /\ compare_tab = SampleCompare
    /\ RunIdle
    /\ RankIdle
    /\ SysIdle
    /\ KeyIdle
    /\ LayIdle
    /\ WinIdle

Next ==
    \/ StartEditing
    \/ SearchSpawn
    \/ SearchFinish
    \/ \E t \in 1..Len(ind) : IndicatorFrame(t)
    \/ \E t \in 1..Len(ind) : IndicatorClear(t)

Spec == Init /\ [][Next]_vars

\* Ranking mode, in which search() has each of its exits: Some, None after
\* an embed error, None after a malformed query, and the panic.
LiveInit == Init /\ modesel_items = ItemsWith(3)

\* Every indicator is an operating-system thread of its own: it is scheduled
\* as long as it can take a step.
LiveSpec ==
    /\ LiveInit
    /\ [][Next]_vars
    /\ \A t \in 1..MaxQueries : WF_vars(t <= Len(ind) /\ IndicatorFrame(t))
    /\ \A t \in 1..MaxQueries : WF_vars(t <= Len(ind) /\ IndicatorClear(t))

\* ------------------------------------------------------------------------
\* QuerySpec: the main thread alone, queries one after the other
\* ------------------------------------------------------------------------
QueryInit ==
    /\ \E k \in 1..Len(OptionNames) : modesel_items = ItemsWith(k)
    /\ search = <<>>
    /\ char_index = 0
    /\ input_mode = "Normal"
    /\ current_element = "Search"
    /\ search_results = <<>>
    /\ notifications = <<>>
    /\ images_embedding \in {[p \in Images |-> p], <<>>}
    /\ iter_order \in IF images_embedding = <<>> THEN {<<>>}
                      ELSE {IdentityOrder, [k \in 1..NImages |-> NImages + 1 - k]}
    /\ image_files \in {Images, Images \ {1}}
    /\ compare_tab = SampleCompare
    /\ RunIdle
    /\ RankIdle
    /\ SysIdle
    /\ KeyIdle
    /\ LayIdle
    /\ WinIdle

QueryNext ==
    \/ StartEditing
    \/ \E c \in Alphabet : EnterChar(c)
    \/ DeleteChar
    \/ SearchSpawn
    \/ SearchFinish

QuerySpec == QueryInit /\ [][QueryNext]_vars

\* ------------------------------------------------------------------------
\* LayoutSpec: the layout of the image cells applied to its inputs
\* ------------------------------------------------------------------------

\* img_block = block.inner(img_area) (main.rs:194): img_area begins at
\* column 0 below the help line and the input bar
ImageBlocks == {Rect(1, 5, w, h) : w \in 0..MaxWidth, h \in 0..MaxHeight}

LayoutInit ==
    /\ AppDefault
    /\ RunIdle
    /\ RankIdle
    /\ SysIdle
    /\ KeyIdle
    /\ WinIdle
    /\ \E n \in 0..MaxCells, b \in ImageBlocks : lay_in = [n |-> n, block |-> b]
    /\ lay_out = [done |-> FALSE, rows |-> <<>>, areas |-> <<>>]

\* main.rs:198-255 for results_count = lay_in.n
LayoutApply ==
    /\ ~lay_out.done
    /\ lay_out' = [done |-> TRUE,
                   rows |-> IF lay_in.n >= 2
                            THEN RightRows(lay_in.n, MainSplit(lay_in.block)[2])
                            ELSE <<>>,
                   areas |-> LayoutAreas(lay_in.n, lay_in.block)]
    /\ UNCHANGED <<appVars, runVars, rankVars, keyVars, winVars, sysVars, lay_in>>

LayoutNext == LayoutApply

LayoutSpec == LayoutInit /\ [][LayoutNext]_vars

\* ------------------------------------------------------------------------
\* WindowSpec: the result window of search() and the draw that follows
\* ------------------------------------------------------------------------

\* embed_rank with n entries: paths 1..n by descending score
RankOf(n) == [k \in 1..n |-> <<k, n - k>>]

\* the sets of files that fail to open or decode: none, any one, the
\* best-ranked ones
FailSets(n) == {{}} \cup {{k} : k \in 1..n} \cup {1..k : k \in 1..n}

WindowInit ==
    /\ AppDefault
    /\ RunIdle
    /\ RankIdle
    /\ SysIdle
    /\ KeyIdle
    /\ LayIdle
    /\ \E n \in 0..MaxRank : \E failing \in FailSets(n) :
         win_in = [rank |-> RankOf(n), files |-> (1..n) \ failing]
    /\ win_out = [pc |-> "start", results |-> <<>>, cells |-> <<>>]

\* main.rs:705-727, then self.search_results = results (main.rs:451-453)
WindowDecode ==
    /\ win_out.pc = "start"
    /\ win_out' = [pc |-> "decoded",
                   results |-> DecodeTop(win_in.rank, win_in.files),
                   cells |-> <<>>]
    /\ UNCHANGED <<appVars, runVars, rankVars, keyVars, layVars, sysVars, win_in>>

\* the next draw (main.rs:198-288)
WindowDraw ==
    /\ win_out.pc = "decoded"
    /\ win_out' = [pc |-> "drawn",
                   results |-> DrawCells(win_out.results, term).results,
                   cells |-> DrawCells(win_out.results, term).cells]
    /\ UNCHANGED <<appVars, runVars, rankVars, keyVars, layVars, sysVars, win_in>>

WindowNext ==
    \/ WindowDecode
    \/ WindowDraw

WindowSpec == WindowInit /\ [][WindowNext]_vars

\* ------------------------------------------------------------------------
\* KeySpec: the keys of Normal mode, the mode popup, and the draws
\* ------------------------------------------------------------------------

\* the terminal as it is, one column wider, two rows higher
TermSizes ==
    {DefaultTerm,
     [DefaultTerm EXCEPT !.width = DefaultTerm.width + 1],
     [DefaultTerm EXCEPT !.height = DefaultTerm.height + 2]}

\* Message::new("User pressed space", MessageSeverity::Warning, 5 s)
\* (main.rs:402-406)
SpaceMessage == [text |-> "User pressed space", severity |-> "Warning", secs |-> 5]

\* (variant of InvalidateImageCache: drops the results with their regions)
InvalidateImageCacheClearing(results) == <<>>

\* App::invalidate_image_cache (main.rs:510-514)
InvalidateImageCache(results) ==
    [i \in 1..Len(results) |-> [results[i] EXCEPT !.last_area = None]]

\* (variant of ToggleStatus: flips the selected item and leaves the others)
ToggleStatusFlip(items, sel, m) ==
    IF sel = None THEN [items |-> items, mode |-> m, panic |-> FALSE]
    ELSE IF sel[1] >= Len(items) THEN [items |-> items, mode |-> m, panic |-> TRUE]
    ELSE LET k == sel[1] + 1
         IN  IF items[k].status = "Checked"
             THEN [items |-> [items EXCEPT ![k].status = "Unchecked"],
                   mode |-> m, panic |-> FALSE]
             ELSE [items |-> [items EXCEPT ![k].status = "Checked"],
                   mode |-> SearchEnumOf(items[k].option), panic |-> FALSE]

\* App::toggle_status (main.rs:743-763) for the selection sel and the mode
\* m: the items and the mode it leaves, and whether items[i] is out of
\* bounds (panic)
ToggleStatus(items, sel, m) ==
    LET cleared == [k \in 1..Len(items) |-> [items[k] EXCEPT !.status = "Unchecked"]]
    IN  IF sel = None THEN [items |-> cleared, mode |-> m, panic |-> FALSE]
        ELSE IF sel[1] >= Len(items) THEN [items |-> cleared, mode |-> m, panic |-> TRUE]
        ELSE LET k == sel[1] + 1
             IN  IF cleared[k].status = "Checked"
                 THEN [items |-> [cleared EXCEPT ![k].status = "Unchecked"],
                       mode |-> m, panic |-> FALSE]
                 ELSE [items |-> [cleared EXCEPT ![k].status = "Checked"],
                       mode |-> SearchEnumOf(cleared[k].option), panic |-> FALSE]

\* handle_events reads a key in Normal mode (main.rs:387-396)
NormalKey ==
    /\ main_pc = "idle"
    /\ ~exit
    /\ loop_pc = "events"
    /\ input_mode = "Normal"

\* 'r' (main.rs:397-399); no element has an arm for it
KeyR ==
    /\ NormalKey
    /\ clear_terminal' = TRUE
    /\ loop_pc' = "draw"
    /\ UNCHANGED <<appVars, runVars, rankVars, layVars, winVars, sysVars>>
    /\ UNCHANGED <<mode, modesel_open, selected, button_pressed, exit, term, shown, encoded>>

\* ' ' on the Search or the Filter element (main.rs:401-407)
KeySpace ==
    /\ NormalKey
    /\ current_element \in {"Search", "Filter"}
    /\ Len(notifications) < MaxMessages
    /\ notifications' = Append(notifications, SpaceMessage)
    /\ loop_pc' = "draw"
    /\ UNCHANGED <<modesel_items, search, char_index, input_mode, current_element,
                   search_results, images_embedding, iter_order, image_files, compare_tab>>
    /\ UNCHANGED <<runVars, rankVars, layVars, winVars, sysVars>>
    /\ UNCHANGED <<mode, modesel_open, selected, button_pressed, clear_terminal, exit, term,
                   shown, encoded>>

\* Search element, 'c': clear_search (main.rs:411, 730-733)
ClearSearch ==
    /\ NormalKey
    /\ current_element = "Search"
    /\ search' = <<>>
    /\ char_index' = 0
    /\ loop_pc' = "draw"
    /\ UNCHANGED <<modesel_items, input_mode, current_element, search_results, notifications,
                   images_embedding, iter_order, image_files, compare_tab>>
    /\ UNCHANGED <<runVars, rankVars, layVars, winVars, sysVars>>
    /\ UNCHANGED <<mode, modesel_open, selected, button_pressed, clear_terminal, exit, term,
                   shown, encoded>>

\* Search or Filter element, 'q': exit (main.rs:412, 419)
KeyQuit ==
    /\ NormalKey
    /\ current_element \in {"Search", "Filter"}
    /\ exit' = TRUE
    /\ loop_pc' = "draw"
    /\ UNCHANGED <<appVars, runVars, rankVars, layVars, winVars, sysVars>>
    /\ UNCHANGED <<mode, modesel_open, selected, button_pressed, clear_terminal, term,
                   shown, encoded>>

\* Search or Filter element, Right / Left (main.rs:413-414, 420-421)
KeyRightLeft(target) ==
    /\ NormalKey
    /\ current_element \in {"Search", "Filter"}
    /\ current_element' = target
    /\ loop_pc' = "draw"
    /\ UNCHANGED <<modesel_items, search, char_index, input_mode, search_results,
                   notifications, images_embedding, iter_order, image_files, compare_tab>>
    /\ UNCHANGED <<runVars, rankVars, layVars, winVars, sysVars>>
    /\ UNCHANGED <<mode, modesel_open, selected, button_pressed, clear_terminal, exit, term,
                   shown, encoded>>

\* Filter element, Enter (main.rs:422-427)
OpenModesel ==
    /\ NormalKey
    /\ current_element = "Filter"
    /\ button_pressed' = TRUE
    /\ modesel_open' = ~modesel_open
    /\ current_element' = "Modesel"
    /\ selected' = Some(0)
    /\ loop_pc' = "draw"
    /\ UNCHANGED <<modesel_items, search, char_index, input_mode, search_results,
                   notifications, images_embedding, iter_order, image_files, compare_tab>>
    /\ UNCHANGED <<runVars, rankVars, layVars, winVars, sysVars>>
    /\ UNCHANGED <<mode, clear_terminal, exit, term, shown, encoded>>

\* Modesel element, 'q' or Esc (main.rs:431-435)
CloseModesel ==
    /\ NormalKey
    /\ current_element = "Modesel"
    /\ modesel_open' = FALSE
    /\ current_element' = "Filter"
    /\ search_results' = InvalidateImageCache(search_results)
    /\ loop_pc' = "draw"
    /\ UNCHANGED <<modesel_items, search, char_index, input_mode, notifications,
                   images_embedding, iter_order, image_files, compare_tab>>
    /\ UNCHANGED <<runVars, rankVars, layVars, winVars, sysVars>>
    /\ UNCHANGED <<mode, selected, button_pressed, clear_terminal, exit, term, shown, encoded>>

\* Modesel element, Enter (main.rs:436-441)
SubmitModesel ==
    /\ NormalKey
    /\ current_element = "Modesel"
    /\ LET t == ToggleStatus(modesel_items, selected, mode)
       IN  /\ modesel_items' = t.items
           /\ mode' = t.mode
           /\ IF t.panic
              THEN /\ main_pc' = "panicked"
                   /\ UNCHANGED <<modesel_open, current_element, search_results>>
              ELSE /\ main_pc' = main_pc
                   /\ modesel_open' = FALSE
                   /\ current_element' = "Filter"
                   /\ search_results' = InvalidateImageCache(search_results)
    /\ loop_pc' = "draw"
    /\ UNCHANGED <<search, char_index, input_mode, notifications, images_embedding,
                   iter_order, image_files, compare_tab>>
    /\ UNCHANGED <<ind, kill_chan, last_call, rankVars, layVars, winVars, sysVars>>
    /\ UNCHANGED <<selected, button_pressed, clear_terminal, exit, term, shown, encoded>>

\* Modesel element, ' ' (main.rs:401-407, 442)
SpaceModesel ==
    /\ NormalKey
    /\ current_element = "Modesel"
    /\ Len(notifications) < MaxMessages
    /\ notifications' = Append(notifications, SpaceMessage)
    /\ LET t == ToggleStatus(modesel_items, selected, mode)
       IN  /\ modesel_items' = t.items
           /\ mode' = t.mode
           /\ main_pc' = IF t.panic THEN "panicked" ELSE main_pc
    /\ loop_pc' = "draw"
    /\ UNCHANGED <<search, char_index, input_mode, current_element, search_results,
                   images_embedding, iter_order, image_files, compare_tab>>
    /\ UNCHANGED <<ind, kill_chan, last_call, rankVars, layVars, winVars, sysVars>>
    /\ UNCHANGED <<modesel_open, selected, button_pressed, clear_terminal, exit, term,
                   shown, encoded>>

\* ListState::select_next: selected.map_or(0, |i| i.saturating_add(1))
SelectNext(sel) == IF sel = None THEN Some(0) ELSE Some(sel[1] + 1)

\* ListState::select_previous: an index saturates at 0
SelectPrevious(sel) == IF sel = None THEN None ELSE Some(Max(sel[1] - 1, 0))

\* Modesel element, Down (main.rs:443, 735-737)
KeyDown ==
    /\ NormalKey
    /\ current_element = "Modesel"
    /\ selected' = SelectNext(selected)
    /\ loop_pc' = "draw"
    /\ UNCHANGED <<appVars, runVars, rankVars, layVars, winVars, sysVars>>
    /\ UNCHANGED <<mode, modesel_open, button_pressed, clear_terminal, exit, term,
                   shown, encoded>>

\* Modesel element, Up with an item selected (main.rs:444, 739-741)
KeyUp ==
    /\ NormalKey
    /\ current_element = "Modesel"
    /\ selected # None
    /\ selected' = SelectPrevious(selected)
    /\ loop_pc' = "draw"
    /\ UNCHANGED <<appVars, runVars, rankVars, layVars, winVars, sysVars>>
    /\ UNCHANGED <<mode, modesel_open, button_pressed, clear_terminal, exit, term,
                   shown, encoded>>

\* Editing mode, Esc (main.rs:466)
StopEditing ==
    /\ main_pc = "idle"
    /\ ~exit
    /\ loop_pc = "events"
    /\ input_mode = "Editing"
    /\ input_mode' = "Normal"
    /\ loop_pc' = "draw"
    /\ UNCHANGED <<modesel_items, search, char_index, current_element, search_results,
                   notifications, images_embedding, iter_order, image_files, compare_tab>>
    /\ UNCHANGED <<runVars, rankVars, layVars, winVars, sysVars>>
    /\ UNCHANGED <<mode, modesel_open, selected, button_pressed, clear_terminal, exit, term,
                   shown, encoded>>

\* handle_events without a key: the poll times out or the event is not a
\* key event (main.rs:388-389)
NoKey ==
    /\ main_pc = "idle"
    /\ ~exit
    /\ loop_pc = "events"
    /\ loop_pc' = "draw"
    /\ UNCHANGED <<appVars, runVars, rankVars, layVars, winVars, sysVars>>
    /\ UNCHANGED <<mode, modesel_open, selected, button_pressed, clear_terminal, exit, term,
                   shown, encoded>>

\* List's render with the state (main.rs:372): an index past the last
\* item is set to the last item
ClampSelected(sel, len) ==
    IF sel # None /\ sel[1] >= len THEN Some(Max(len - 1, 0)) ELSE sel

\* One turn of App::run up to handle_events (main.rs:111-116): the pending
\* clear, then App::draw for the size the terminal has by then.  The
\* messages that Messages::draw drops are the oldest ones: the messages of
\* this specification all last 5 s.  poll_warnings() has nothing to
\* deliver: no call of the embedding model is pending.
Draw ==
    /\ main_pc = "idle"
    /\ ~exit
    /\ loop_pc = "draw"
    /\ clear_terminal' = FALSE
    /\ \E size \in TermSizes :
         /\ term' = size
         /\ LET d == DrawCells(search_results, size)
            IN  /\ search_results' = d.results
                /\ encoded' = d.encoded
                /\ shown' = [i \in 1..Len(search_results) |->
                               IF i <= Len(d.cells) THEN Some(d.cells[i].inner_area)
                               ELSE shown[i]]
    /\ button_pressed' = FALSE
    /\ selected' = IF modesel_open THEN ClampSelected(selected, Len(modesel_items))
                   ELSE selected
    /\ \E k \in 0..Len(notifications) :
         notifications' = SubSeq(notifications, k + 1, Len(notifications))
    /\ loop_pc' = "events"
    /\ UNCHANGED <<modesel_items, search, char_index, input_mode, current_element,
                   images_embedding, iter_order, image_files, compare_tab>>
    /\ UNCHANGED <<runVars, rankVars, layVars, winVars, sysVars>>
    /\ UNCHANGED <<mode, modesel_open, exit>>

\* App::default, or the state a first query in Search mode leaves
KeyInit ==
    /\ modesel_items = ItemsWith(1)
    /\ search \in {<<>>, <<"a">>}
    /\ char_index = Len(search)
    /\ input_mode = "Normal"
    /\ current_element = "Search"
    /\ notifications = <<>>
    /\ images_embedding = [p \in Images |-> p]
    /\ iter_order = IdentityOrder
    /\ image_files \in {Images, Images \ {1}}
    /\ compare_tab = SampleCompare
    /\ search_results =
         IF search = <<>> THEN <<>>
         ELSE DecodeTop(SearchDispatch(modesel_items, search, images_embedding,
                                       iter_order, TRUE, TRUE).rank, image_files)
    /\ RunIdle
    /\ RankIdle
    /\ SysIdle
    /\ KeyFields
    /\ loop_pc = "draw"
    /\ LayIdle
    /\ WinIdle

\* StartEditing leaves the loop in handle_events: the draw that follows it
\* reads input_mode for the help line and the cursor only, and is taken
\* with the draw after the next key.
KeyNext ==
    \/ KeyR
    \/ KeySpace
    \/ ClearSearch
    \/ KeyQuit
    \/ \E target \in {"Search", "Filter"} : KeyRightLeft(target)
    \/ StartEditing
    \/ OpenModesel
    \/ CloseModesel
    \/ SubmitModesel
    \/ SpaceModesel
    \/ KeyDown
    \/ KeyUp
    \/ StopEditing
    \/ NoKey
    \/ Draw

KeySpec == KeyInit /\ [][KeyNext]_vars

\* ------------------------------------------------------------------------
\* EditSpec: the keys of the Editing mode on the search string
\* ------------------------------------------------------------------------

\* the characters typed: one of one byte, one of two bytes
EditAlphabet == {"a", "é"}

\* the character boundaries of s as byte offsets, 0 to s.len()
Boundaries(s) == {ByteCount(SubSeq(s, 1, j)) : j \in 0..Len(s)}

\* String::remove(idx): idx is a byte offset; the character that starts
\* there is removed.  It panics when idx is not on a character boundary
\* (or is s.len(), which the caller excludes).
StringRemove(s, idx) ==
    IF idx \in Boundaries(s) /\ idx < ByteCount(s)
    THEN LET j == CHOOSE k \in 0..(Len(s) - 1) : ByteCount(SubSeq(s, 1, k)) = idx
         IN  [panic |-> FALSE, s |-> SubSeq(s, 1, j) \o SubSeq(s, j + 2, Len(s))]
    ELSE [panic |-> TRUE, s |-> s]

\* Editing mode, Delete: App::delete_right (main.rs:528-532).  search.len()
\* counts bytes, and char_index is passed to remove() as a byte offset.
DeleteRight ==
    /\ main_pc = "idle"
    /\ input_mode = "Editing"
    /\ IF char_index < ByteCount(search)
       THEN LET r == StringRemove(search, char_index)
            IN  /\ search' = r.s
                /\ main_pc' = IF r.panic THEN "panicked" ELSE main_pc
       ELSE UNCHANGED <<search, main_pc>>
    /\ UNCHANGED <<modesel_items, char_index, input_mode, current_element, search_results,
                   notifications, images_embedding, iter_order, image_files, compare_tab>>
    /\ UNCHANGED <<ind, kill_chan, last_call, rankVars, auxVars>>

\* Editing mode, Left: App::move_cursor_left (main.rs:481-484)
MoveCursorLeft ==
    /\ main_pc = "idle"
    /\ input_mode = "Editing"
    /\ char_index' = clamp_cursor(search, Max(char_index - 1, 0))
    /\ UNCHANGED <<modesel_items, search, input_mode, current_element, search_results,
                   notifications, images_embedding, iter_order, image_files, compare_tab>>
    /\ UNCHANGED <<runVars, rankVars, auxVars>>

\* Editing mode, Right: App::move_cursor_right (main.rs:486-489)
MoveCursorRight ==
    /\ main_pc = "idle"
    /\ input_mode = "Editing"
    /\ char_index' = clamp_cursor(search, char_index + 1)
    /\ UNCHANGED <<modesel_items, search, input_mode, current_element, search_results,
                   notifications, images_embedding, iter_order, image_files, compare_tab>>
    /\ UNCHANGED <<runVars, rankVars, auxVars>>

\* App::default with the store built, or the state after a string was typed
\* and the cursor left at its end or moved back to its start
EditInit ==
    /\ modesel_items = ItemsWith(1)
    /\ search \in {<<>>, <<"a", "é", "a">>}
    /\ char_index \in {0, Len(search)}
    /\ input_mode = "Normal"
    /\ current_element = "Search"
    /\ search_results = <<>>
    /\ notifications = <<>>
    /\ images_embedding = [p \in Images |-> p]
    /\ iter_order = IdentityOrder
    /\ image_files = Images
    /\ compare_tab = SampleCompare
    /\ RunIdle
    /\ RankIdle
    /\ SysIdle
    /\ KeyIdle
    /\ LayIdle
    /\ WinIdle

EditNext ==
    \/ StartEditing
    \/ \E c \in EditAlphabet : EnterChar(c)
    \/ DeleteChar
    \/ DeleteRight
    \/ MoveCursorLeft
    \/ MoveCursorRight
    \/ StopEditing
    \/ ClearSearch
    \/ Draw

EditSpec == EditInit /\ [][EditNext]_vars

\* ------------------------------------------------------------------------
\* BuildSpec: the store build of App::default (main.rs:776-810)
\* ------------------------------------------------------------------------

\* clip_model.embed_image(path) when it returns Ok: a function of the file
EmbedVector(path) == path

\* HashMap::insert / the write of a record: the map with key k bound to v
Insert(map, k, v) == [q \in DOMAIN map \cup {k} |-> IF q = k THEN v ELSE map[q]]

\* The first run of the program over a directory that holds the supported
\* files Images and no record yet; the scan (main.rs:783-788) returns them
\* in any order, and embed_image succeeds for any subset of them.
BuildInit ==
    /\ modesel_items = ItemsWith(1)
    /\ search = <<>>
    /\ char_index = 0
    /\ input_mode = "Normal"
    /\ current_element = "Search"
    /\ search_results = <<>>
    /\ notifications = <<>>
    /\ images_embedding = <<>>
    /\ iter_order = <<>>
    /\ image_files = Images
    /\ compare_tab = SampleCompare
    /\ RunIdle
    /\ RankIdle
    /\ KeyIdle
    /\ LayIdle
    /\ WinIdle
    /\ ToastIdle
    /\ WebIdle
    /\ CliIdle
    /\ build_pc = "embed"
    /\ scan \in Orders(Images)
    /\ embed_ok \in SUBSET Images
    /\ build_index = 0
    /\ mem = <<>>
    /\ disk = <<>>
    /\ embed_calls = 0
    /\ builds = 1

\* main.rs:790-797 for the image at build_index.  The `if` of line 792 has
\* neither condition nor body: nothing is skipped.  embed_image is called,
\* expect() panics on Err, and the vector enters image_embeddings.
BuildEmbed ==
    /\ build_pc = "embed"
    /\ build_index < Len(scan)
    /\ embed_calls' = embed_calls + 1
    /\ LET image == scan[build_index + 1]
       IN  IF image \in embed_ok
           THEN /\ mem' = Insert(mem, image, EmbedVector(image))
                /\ build_pc' = "persist"
           ELSE /\ mem' = mem
                /\ build_pc' = "embed_panic"
    /\ UNCHANGED <<scan, embed_ok, build_index, disk, builds>>
    /\ UNCHANGED <<appVars, runVars, rankVars, keyVars, layVars, winVars, toastVars, webVars, cliVars>>

\* main.rs:798-809: the record of the image is created and written; either
\* expect() panics on Err.  File::create truncates a record that exists.
BuildPersist ==
    /\ build_pc = "persist"
    /\ LET image == scan[build_index + 1]
       IN  \E outcome \in {"ok", "create_err", "write_err"} :
              /\ disk' = IF outcome = "ok" THEN Insert(disk, image, mem[image])
                         ELSE IF outcome = "write_err"
                              THEN [q \in DOMAIN disk \ {image} |-> disk[q]]
                              ELSE disk
              /\ build_pc' = IF outcome = "ok" THEN "embed" ELSE "write_panic"
              /\ build_index' = IF outcome = "ok" THEN build_index + 1 ELSE build_index
    /\ UNCHANGED <<scan, embed_ok, mem, embed_calls, builds>>
    /\ UNCHANGED <<appVars, runVars, rankVars, keyVars, layVars, winVars, toastVars, webVars, cliVars>>

\* main.rs:812-842: the loop is over, App is made with the map
BuildDone ==
    /\ build_pc = "embed"
    /\ build_index = Len(scan)
    /\ build_pc' = "done"
    /\ images_embedding' = mem
    /\ iter_order' \in Orders(DOMAIN mem)
    /\ UNCHANGED <<modesel_items, search, char_index, input_mode, current_element,
                   search_results, notifications, image_files, compare_tab>>
    /\ UNCHANGED <<scan, embed_ok, build_index, mem, disk, embed_calls, builds>>
    /\ UNCHANGED <<runVars, rankVars, keyVars, layVars, winVars, toastVars, webVars, cliVars>>

\* The program is started again over the same directory: the records stay,
\* the memory of the process is new, the scan order is any.
BuildRestart ==
    /\ build_pc \in {"done", "embed_panic", "write_panic"}
    /\ builds < MaxBuilds
    /\ builds' = builds + 1
    /\ build_pc' = "embed"
    /\ scan' \in Orders(Images)
    /\ build_index' = 0
    /\ mem' = <<>>
    /\ embed_calls' = 0
    /\ images_embedding' = <<>>
    /\ iter_order' = <<>>
    /\ UNCHANGED <<modesel_items, search, char_index, input_mode, current_element,
                   search_results, notifications, image_files, compare_tab>>
    /\ UNCHANGED <<embed_ok, disk>>
    /\ UNCHANGED <<runVars, rankVars, keyVars, layVars, winVars, toastVars, webVars, cliVars>>

BuildNext ==
    \/ BuildEmbed
    \/ BuildPersist
    \/ BuildDone
    \/ BuildRestart

BuildSpec == BuildInit /\ [][BuildNext]_vars

\* ------------------------------------------------------------------------
\* ExtractSpec: extract_image_urls and the numbering of scrape()
\* (src/src/img_scrape/google_photos.rs)
\* ------------------------------------------------------------------------

\* A page text is a sequence of tokens:
\*   "H"  the text "https" (characters of the class of the regex)
\*   "R"  the text "://lh3.googleusercontent.com/" (':' and '.' are not in
\*        the class), so that <<"H", "R">> is the literal head of the regex
\*   "a", "b", "="  characters of the class [a-zA-Z0-9_\-=/]
\*   " "  a character outside the class
UrlClass == {"H", "a", "b", "="}

\* the regex matches at position i: the literal head, then one or more
\* characters of the class
MatchesAt(text, i) ==
    /\ i + 2 <= Len(text)
    /\ text[i] = "H"
    /\ text[i + 1] = "R"
    /\ text[i + 2] \in UrlClass

\* the end of the greedy match that begins at i
MatchEnd(text, i) ==
    CHOOSE j \in (i + 2)..Len(text) :
        /\ \A k \in (i + 2)..j : text[k] \in UrlClass
        /\ (j = Len(text) \/ text[j + 1] \notin UrlClass)

\* re.find_iter(html): the leftmost matches, one after the end of the other
RECURSIVE FindIter(_, _)
FindIter(text, i) ==
    IF i > Len(text) THEN <<>>
    ELSE IF MatchesAt(text, i)
         THEN <<SubSeq(text, i, MatchEnd(text, i))>> \o FindIter(text, MatchEnd(text, i) + 1)
         ELSE FindIter(text, i + 1)

\* (variant of Truncate: the url as matched)
TruncateNothing(url) == url

\* if let Some(idx) = url.find('=') { url.truncate(idx) }
\* (google_photos.rs:40-42)
Truncate(url) ==
    IF \E k \in 1..Len(url) : url[k] = "="
    THEN SubSeq(url, 1, (CHOOSE k \in 1..Len(url) :
                            url[k] = "=" /\ \A h \in 1..(k - 1) : url[h] # "=") - 1)
    ELSE url

\* urls, the HashSet of extract_image_urls (google_photos.rs:34-45)
UrlSet(text) == {Truncate(FindIter(text, 1)[k]) : k \in 1..Len(FindIter(text, 1))}

\* the decimal digits of n
RECURSIVE Digits(_)
Digits(n) == IF n < 10 THEN <<n>> ELSE Digits(n \div 10) \o <<n % 10>>

\* {:04}: the digits, with zeros in front up to a width of 4
RECURSIVE Pad4(_)
Pad4(digits) == IF Len(digits) >= 4 THEN digits ELSE Pad4(<<0>> \o digits)

\* format!("{}/img_{:04}.jpg", path.display(), i) (google_photos.rs:23)
Filename(dir, i) == <<dir, "/img_", Pad4(Digits(i)), ".jpg">>

\* the pieces a page is made of
Snippets ==
    {<<"H", "R", "a">>, <<"H", "R", "b">>, <<"H", "R", "a", "=", "a">>,
     <<"H", "R", "a", "=", "b">>, <<"H", "R", "=", "a">>, <<"H", "R">>, <<"a">>, <<" ">>}

RECURSIVE Pages(_)
Pages(n) ==
    IF n = 0 THEN {<<>>}
    ELSE Pages(n - 1) \cup {p \o sn : p \in Pages(n - 1), sn \in Snippets}

ExtractInit ==
    /\ AppDefault
    /\ RunIdle
    /\ RankIdle
    /\ KeyIdle
    /\ LayIdle
    /\ WinIdle
    /\ ToastIdle
    /\ BuildIdle
    /\ CliIdle
    /\ page \in Pages(MaxSnippets)
    /\ ext_out = <<>>

\* One scrape of the page (google_photos.rs:18-26) in which every download
\* succeeds: image_urls is the HashSet in the order its iterator yields,
\* which is any order; the i-th url (from 0) goes to file number i.
ExtractRun ==
    /\ Len(ext_out) < 2
    /\ \E order \in Orders(UrlSet(page)) :
         ext_out' = Append(ext_out,
                           [i \in 1..Len(order) |->
                               [url |-> order[i], filename |-> Filename("images/", i - 1)]])
    /\ UNCHANGED <<appVars, runVars, rankVars, keyVars, layVars, winVars, toastVars, buildVars, cliVars,
                   page>>

ExtractNext == ExtractRun

ExtractSpec == ExtractInit /\ [][ExtractNext]_vars

\* ------------------------------------------------------------------------
\* MainSpec: main() (main.rs:80-106) and scrape() (google_photos.rs:11-29)
\* ------------------------------------------------------------------------

\* an argument: the path of a model file that exists, a path that does not
\* exist, the option, an album url
ArgTokens == {"model", "nomodel", "--photos", "url"}

RECURSIVE ArgLists(_)
ArgLists(n) ==
    IF n = 0 THEN {<<>>}
    ELSE ArgLists(n - 1) \cup {a \o <<t>> : a \in ArgLists(n - 1), t \in ArgTokens}

\* the album page: no image, or three images
SamplePages ==
    {<<>>,
     <<"H", "R", "a", " ", "H", "R", "b", " ", "H", "R", "=", "a">>}

\* (variant of ModelExists: unwrap_or(true))
ModelExistsOrUnknown(arg) == TRUE

\* fs::exists(PathBuf::from(&args[1])).unwrap_or(false) (main.rs:91)
ModelExists(arg) == arg = "model"

\* args.len() > 3 && args[2] == "--photos" (main.rs:96-97); args[0] is the
\* program name
PhotosGiven(args) == Len(args) >= 3 /\ args[2] = "--photos"

\* (variant of AfterDownload: the result of download_image dropped)
AfterDownloadIgnored(ok) == "download"

\* download_image(&client, url, &filename)? (google_photos.rs:24)
AfterDownload(ok) == IF ok THEN "download" ELSE "scrape_err"

MainInit ==
    /\ AppDefault
    /\ RunIdle
    /\ RankIdle
    /\ KeyIdle
    /\ LayIdle
    /\ WinIdle
    /\ ToastIdle
    /\ build_pc = "none"
    /\ scan = <<>>
    /\ embed_ok = Images
    /\ build_index = 0
    /\ mem = <<>>
    /\ disk = <<>>
    /\ embed_calls = 0
    /\ builds = 1
    /\ WebIdle
    /\ argv \in ArgLists(MaxArgs)
    /\ cli_pc = "start"
    /\ exit_code = None
    /\ image_urls = <<>>
    /\ downloads = <<>>

\* main.rs:83-89
MainArgs ==
    /\ cli_pc = "start"
    /\ IF Len(argv) < 1
       THEN cli_pc' = "exited" /\ exit_code' = Some(1)
       ELSE cli_pc' = "model" /\ exit_code' = exit_code
    /\ UNCHANGED <<argv, image_urls, downloads>>
    /\ UNCHANGED <<appVars, runVars, rankVars, keyVars, layVars, winVars, toastVars, buildVars, webVars>>

\* main.rs:91-97
MainModel ==
    /\ cli_pc = "model"
    /\ IF ~ModelExists(argv[1])
       THEN cli_pc' = "exited" /\ exit_code' = Some(1)
       ELSE /\ cli_pc' = IF PhotosGiven(argv) THEN "scrape" ELSE "app"
            /\ exit_code' = exit_code
    /\ UNCHANGED <<argv, image_urls, downloads>>
    /\ UNCHANGED <<appVars, runVars, rankVars, keyVars, layVars, winVars, toastVars, buildVars, webVars>>

\* google_photos.rs:13-20: the client, the request of the album page and
\* its text, each of which returns with `?` on Err; then the urls
ScrapeFetch ==
    /\ cli_pc = "scrape"
    /\ \E ok \in BOOLEAN :
         IF ok
         THEN /\ page' \in SamplePages
              /\ image_urls' \in Orders(UrlSet(page'))
              /\ cli_pc' = "download"
         ELSE /\ cli_pc' = "scrape_err"
              /\ UNCHANGED <<page, image_urls>>
    /\ UNCHANGED <<argv, exit_code, downloads, ext_out>>
    /\ UNCHANGED <<appVars, runVars, rankVars, keyVars, layVars, winVars, toastVars, buildVars>>

\* google_photos.rs:22-26: one turn of the loop
ScrapeDownload ==
    /\ cli_pc = "download"
    /\ Len(downloads) < Len(image_urls)
    /\ \E ok \in BOOLEAN :
         /\ downloads' = Append(downloads,
                                [url |-> image_urls[Len(downloads) + 1],
                                 filename |-> Filename("images/", Len(downloads)),
                                 ok |-> ok])
         /\ cli_pc' = AfterDownload(ok)
    /\ UNCHANGED <<argv, exit_code, image_urls>>
    /\ UNCHANGED <<appVars, runVars, rankVars, keyVars, layVars, winVars, toastVars, buildVars, webVars>>

\* google_photos.rs:28: Ok(()), and main goes on
ScrapeReturn ==
    /\ cli_pc = "download"
    /\ Len(downloads) = Len(image_urls)
    /\ cli_pc' = "app"
    /\ UNCHANGED <<argv, exit_code, image_urls, downloads>>
    /\ UNCHANGED <<appVars, runVars, rankVars, keyVars, layVars, winVars, toastVars, buildVars, webVars>>

\* main.rs:98-101: scrape returned Err
MainScrapeFailed ==
    /\ cli_pc = "scrape_err"
    /\ cli_pc' = "exited"
    /\ exit_code' = Some(1)
    /\ UNCHANGED <<argv, image_urls, downloads>>
    /\ UNCHANGED <<appVars, runVars, rankVars, keyVars, layVars, winVars, toastVars, buildVars, webVars>>

\* main.rs:104: App::default() begins the store build, run() the UI
MainRunApp ==
    /\ cli_pc = "app"
    /\ cli_pc' = "running"
    /\ build_pc' = "embed"
    /\ scan' = IdentityOrder
    /\ UNCHANGED <<embed_ok, build_index, mem, disk, embed_calls, builds>>
    /\ UNCHANGED <<argv, exit_code, image_urls, downloads>>
    /\ UNCHANGED <<appVars, runVars, rankVars, keyVars, layVars, winVars, toastVars, webVars>>

MainNext ==
    \/ MainArgs
    \/ MainModel
    \/ ScrapeFetch
    \/ ScrapeDownload
    \/ ScrapeReturn
    \/ MainScrapeFailed
    \/ MainRunApp

MainSpec == MainInit /\ [][MainNext]_vars

\* ------------------------------------------------------------------------
\* ToastSpec: the rectangles of Messages::draw (ui/message.rs:30-76)
\* ------------------------------------------------------------------------

\* u16: 0 .. 2^16 - 1
U16 == 65536

\* `n as u16`
AsU16(n) == n % U16

\* a + b, a - b and a * b on u16: the value a release build leaves
\* (wrapping), and whether a debug build panics (overflow checks)
U16Add(a, b) == [v |-> (a + b) % U16, ovf |-> a + b >= U16]

U16Sub(a, b) == [v |-> (a - b) % U16, ovf |-> a < b]

U16Mul(a, b) == [v |-> (a * b) % U16, ovf |-> a * b >= U16]

\* Rect::new(x, y, width, height): width and height are cut so that the
\* right and the bottom edge stay within u16
RectNew(x, y, w, h) == Rect(x, y, Min(x + w, U16 - 1) - x, Min(y + h, U16 - 1) - y)

\* ui/message.rs:36-40 and 66 for the message number index (from 0) of
\* len bytes of text: the area, and whether an operation overflowed
ToastArea(size_x, index, len) ==
    LET width == U16Add(AsU16(len), 4)
        height == 3
        x1 == U16Sub(size_x, width.v)
        x == U16Sub(x1.v, 1)
        y1 == U16Mul(AsU16(index), height + 1)
        y == U16Add(y1.v, 1)
    IN  [area |-> RectNew(x.v, y.v, width.v, height),
         ovf |-> width.ovf \/ x1.ovf \/ x.ovf \/ y1.ovf \/ y.ovf]

\* crossterm::terminal::size().unwrap_or((80, 24)): a width, or 80
TermWidths == 0..MaxTermWidth \cup {80}

\* text.len() of the unexpired messages, oldest first
TextLens == UNION {[1..n -> 0..MaxTextLen] : n \in 0..MaxMessages}

\* The build profile is not part of the sources: overflow checks are on
\* in a debug build and off in a release build.
ToastInit ==
    /\ AppDefault
    /\ RunIdle
    /\ RankIdle
    /\ BuildIdle
    /\ WebIdle
    /\ CliIdle
    /\ KeyIdle
    /\ LayIdle
    /\ WinIdle
    /\ \E w \in TermWidths, l \in TextLens, p \in {"debug", "release"} :
         toast_in = [size_x |-> w, lens |-> l, profile |-> p]
    /\ toast_out = [pc |-> "start", areas |-> <<>>]

\* One turn of the loop of Messages::draw (ui/message.rs:35-75) for the
\* next message: with overflow checks the first overflow panics
ToastDraw ==
    /\ toast_out.pc = "start"
    /\ Len(toast_out.areas) < Len(toast_in.lens)
    /\ LET i == Len(toast_out.areas) + 1
           t == ToastArea(toast_in.size_x, i - 1, toast_in.lens[i])
       IN  toast_out' = IF t.ovf /\ toast_in.profile = "debug"
                        THEN [toast_out EXCEPT !.pc = "panicked"]
                        ELSE [toast_out EXCEPT !.areas = Append(@, t.area)]
    /\ UNCHANGED <<appVars, runVars, rankVars, keyVars, layVars, winVars, buildVars,
                   webVars, cliVars, toast_in>>

\* the loop ends
ToastDone ==
    /\ toast_out.pc = "start"
    /\ Len(toast_out.areas) = Len(toast_in.lens)
    /\ toast_out' = [toast_out EXCEPT !.pc = "drawn"]
    /\ UNCHANGED <<appVars, runVars, rankVars, keyVars, layVars, winVars, buildVars,
                   webVars, cliVars, toast_in>>

ToastNext ==
    \/ ToastDraw
    \/ ToastDone

ToastSpec == ToastInit /\ [][ToastNext]_vars

\* ------------------------------------------------------------------------
\* Properties
\* ------------------------------------------------------------------------
Threads == 1..Len(ind)

\* search() number t has returned to handle_events: a later search() was
\* started, or the main thread is back in its loop.
Returned(t) == t < Len(ind) \/ main_pc = "idle"

\* a step in which search() leaves (by return or by panic) / returns
SearchEnds == main_pc = "searching" /\ main_pc' # "searching"

SearchReturns == main_pc = "searching" /\ main_pc' = "idle"

\* a step in which indicator t prints an animation frame
DrawsFrame(t) == ind'[t].frame # ind[t].frame

RECURSIVE CountDash(_)
CountDash(s) == IF s = <<>> THEN 0 ELSE (IF Head(s) = "-" THEN 1 ELSE 0) + CountDash(Tail(s))

C2_StopsWithinOneFrame ==
    [][\A t \in Threads : kill_chan[t] = "taken" => ~DrawsFrame(t)]_vars

\* C3: after search() has returned, its indicator takes no step any more
\* (each of its steps is a write to the terminal).
C3_NoWriteAfterReturn ==
    [][\A t \in Threads : Returned(t) => ind'[t] = ind[t]]_vars

\* C4: at every moment at most one indicator thread is alive.
C4_AtMostOneIndicator ==
    Cardinality({t \in Threads : ind[t].pc # "done"}) <= 1

\* C5: under fair scheduling every indicator whose search() returned
\* terminates, and an indicator that has terminated wrote a blank last.
\* "Returned" and "terminated" are never undone (second conjunct), so that
\* each returned search() leads to the end of its indicator exactly when,
\* from some moment on, every returned search() has its indicator ended.
C5_IndicatorEndsBlank ==
    /\ <>[](\A t \in Threads : Returned(t) => ind[t].pc = "done")
    /\ [][\A t \in Threads : /\ (Returned(t) => Returned(t)')
                              /\ (ind[t].pc = "done" => ind'[t].pc = "done")]_vars
    /\ [](\A t \in Threads : ind[t].pc = "done" => ind[t].last = "blank")

\* C5 witness: the indicator of a returned search() has terminated, its
\* last write a blank.
C5_Witness ==
    \E t \in Threads : Returned(t) /\ ind[t].pc = "done" /\ ind[t].last = "blank"

\* C6: a search() in which an embed call fails returns (no panic), adds a
\* notification and leaves search_results as they were.
C6_EmbedFailureAborts ==
    [][(SearchEnds /\ last_call'.failed) =>
          /\ main_pc' = "idle"
          /\ last_call'.ret = "None"
          /\ Len(notifications') = Len(notifications) + 1
          /\ search_results' = search_results]_vars

\* C7: in Ranking mode a query with exactly one separator is accepted (both
\* pieces are embedded); any other query is refused: search() returns None,
\* no embed call was made and search_results are as they were.
C7_RankingSeparator ==
    [][(SearchEnds /\ FindChecked(modesel_items, "Ranking")) =>
          IF CountDash(search) = 1
          THEN ~last_call'.malformed /\ last_call'.embeds = 2
          ELSE /\ last_call'.malformed
               /\ last_call'.ret = "None"
               /\ last_call'.embeds = 0
               /\ search_results' = search_results]_vars

\* C7 witness: a query with two separators was refused in Ranking mode
\* while the results of an earlier query are displayed.
C7_Witness ==
    /\ main_pc = "idle"
    /\ FindChecked(modesel_items, "Ranking")
    /\ CountDash(search) = 2
    /\ last_call.malformed
    /\ search_results # <<>>

\* C8: whenever search() returns None, it has added a notification.
C8_FailureNotifies ==
    [][(SearchReturns /\ last_call'.ret = "None") =>
          Len(notifications') = Len(notifications) + 1]_vars

\* ---- ranking (RankSpec) ----
RankPaths == [k \in 1..Len(rk_out.rank) |-> rk_out.rank[k][1]]

PositionOf(seq, x) == CHOOSE k \in 1..Len(seq) : seq[k] = x

\* candidate a is ranked before candidate b
Before(a, b) == PositionOf(RankPaths, a) < PositionOf(RankPaths, b)

\* a precedes b in the iteration order of the store
StoredBefore(a, b) == PositionOf(iter_order, a) < PositionOf(iter_order, b)

\* every stored image is ranked exactly once
RanksAll ==
    /\ Len(rk_out.rank) = Cardinality(DOMAIN images_embedding)
    /\ {RankPaths[k] : k \in 1..Len(RankPaths)} = DOMAIN images_embedding

\* compare(q, candidate) for the text query and for the image query
TextScore(p) == compare_tab[EmbedText(search)][images_embedding[p]]

ImageScore(p) == compare_tab[EmbedImage(search)][images_embedding[p]]

\* C9 as stated: A is ranked before B iff compare(q,A) >= compare(q,B)
\* (Search, Image 2 Image) resp. compare(q,A) <= compare(q,B) (Negative).
C9_RankedIffCompare ==
    rk_out.done =>
        \A a, b \in Images : a # b =>
            /\ FindChecked(modesel_items, "Search") =>
                   (Before(a, b) <=> TextScore(a) >= TextScore(b))
            /\ FindChecked(modesel_items, "Negative Prompt") =>
                   (Before(a, b) <=> TextScore(a) <= TextScore(b))
            /\ FindChecked(modesel_items, "Image 2 Image") =>
                   (Before(a, b) <=> ImageScore(a) >= ImageScore(b))

\* C9 amended: A is ranked before B iff compare(q,A) > compare(q,B)
\* (Negative: <), or the two scores are equal and A precedes B in the
\* iteration order of the store; every stored image is ranked once.
C9_RankedIffStrictOrStored ==
    rk_out.done =>
        /\ ~FindChecked(modesel_items, "Ranking") => RanksAll
        /\ \A a, b \in Images : a # b =>
            /\ FindChecked(modesel_items, "Search") =>
                   (Before(a, b) <=> \/ TextScore(a) > TextScore(b)
                                     \/ TextScore(a) = TextScore(b) /\ StoredBefore(a, b))
            /\ FindChecked(modesel_items, "Negative Prompt") =>
                   (Before(a, b) <=> \/ TextScore(a) < TextScore(b)
                                     \/ TextScore(a) = TextScore(b) /\ StoredBefore(a, b))
            /\ FindChecked(modesel_items, "Image 2 Image") =>
                   (Before(a, b) <=> \/ ImageScore(a) > ImageScore(b)
                                     \/ ImageScore(a) = ImageScore(b) /\ StoredBefore(a, b))

\* C9 witness: a Negative ranking of candidates with different scores and
\* of two candidates with the same score.
C9_Witness ==
    /\ rk_out.done
    /\ FindChecked(modesel_items, "Negative Prompt")
    /\ \E a, b \in Images : TextScore(a) < TextScore(b) /\ Before(a, b)
    /\ \E a, b \in Images : a # b /\ TextScore(a) = TextScore(b) /\ Before(a, b)

\* the pieces of RankQuery before and after its separator
PosText == <<"a">>

NegText == <<>>

RankingScore(p) ==
    compare_tab[EmbedText(PosText)][images_embedding[p]]
    - compare_tab[EmbedText(NegText)][images_embedding[p]]

\* C10: in Ranking mode every candidate is ranked once, with the score
\* compare(pos, candidate) - compare(neg, candidate), scores descending;
\* with the example scores, image 2 comes before image 1 before image 3.
C10_RankingScore ==
    (rk_out.done /\ FindChecked(modesel_items, "Ranking")) =>
        /\ RanksAll
        /\ \A k \in 1..Len(rk_out.rank) : rk_out.rank[k][2] = RankingScore(rk_out.rank[k][1])
        /\ \A j, k \in 1..Len(rk_out.rank) : j < k => rk_out.rank[j][2] >= rk_out.rank[k][2]
        /\ (compare_tab[EmbedText(PosText)] = ExamplePos
            /\ compare_tab[EmbedText(NegText)] = ExampleNeg)
           => Before(2, 1) /\ Before(1, 3)

\* C10 witness: the example scores ranked in Ranking mode, image 2 first
\* with 40, image 1 second with 10.
C10_Witness ==
    /\ rk_out.done
    /\ FindChecked(modesel_items, "Ranking")
    /\ compare_tab[EmbedText(PosText)] = ExamplePos
    /\ compare_tab[EmbedText(NegText)] = ExampleNeg
    /\ rk_out.rank[1] = <<2, 40>>
    /\ rk_out.rank[2] = <<1, 10>>

\* ---- the layout of the cells ----
NonEmpty(a) == a.width > 0 /\ a.height > 0

\* two regions share a cell of the screen
Overlap(a, b) ==
    /\ NonEmpty(a) /\ NonEmpty(b)
    /\ a.x < b.x + b.width /\ b.x < a.x + a.width
    /\ a.y < b.y + b.height /\ b.y < a.y + a.height

\* every cell of region a lies in region b
Within(a, b) ==
    /\ b.x <= a.x /\ a.x + a.width <= b.x + b.width
    /\ b.y <= a.y /\ a.y + a.height <= b.y + b.height

\* C13: for every count N of results from 1 to 10 the layout produces
\* exactly N regions, one per result, and no two of them overlap.
C13_ExactlyNRegions ==
    (lay_out.done /\ lay_in.n >= 1) =>
        /\ Len(lay_out.areas) = lay_in.n
        /\ \A i, j \in 1..Len(lay_out.areas) :
             i # j => ~Overlap(lay_out.areas[i], lay_out.areas[j])
        /\ \A i \in 1..Len(lay_out.areas) : Within(lay_out.areas[i], lay_in.block)

C13_Witness ==
    /\ lay_out.done
    /\ lay_in.n = MaxCells
    /\ Len(lay_out.areas) = MaxCells
    /\ \A i \in 1..Len(lay_out.areas) : NonEmpty(lay_out.areas[i])

\* the first region is the left half of the block
LeftHalf(a, block) ==
    /\ a.x = block.x /\ a.y = block.y /\ a.height = block.height
    /\ 2 * a.width \in (block.width - 1)..(block.width + 1)

\* C14 (as stated): for 3 results the regions are the left half, the top
\* of the right half and the bottom of the right half: the two remaining
\* cells are stacked one above the other.
C14_RightStacked ==
    (lay_out.done /\ lay_in.n = 3) =>
        LET a == lay_out.areas
            b == lay_in.block
        IN  /\ Len(a) = 3
            /\ LeftHalf(a[1], b)
            /\ a[2].x = a[1].x + a[1].width /\ a[3].x = a[2].x
            /\ a[2].width = b.width - a[1].width /\ a[3].width = a[2].width
            /\ a[2].y = b.y /\ a[3].y = a[2].y + a[2].height
            /\ a[3].y + a[3].height = b.y + b.height

\* C14 (amended): for 3 results the regions are the left half and the two
\* halves of the right half side by side: the two remaining cells share the
\* one row that fills the right half, the second to the left of the third.
C14_RightSideBySide ==
    (lay_out.done /\ lay_in.n = 3) =>
        LET a == lay_out.areas
            b == lay_in.block
        IN  /\ Len(a) = 3
            /\ LeftHalf(a[1], b)
            /\ a[2].x = a[1].x + a[1].width /\ a[3].x = a[2].x + a[2].width
            /\ a[3].x + a[3].width = b.x + b.width
            /\ a[2].y = b.y /\ a[3].y = b.y
            /\ a[2].height = b.height /\ a[3].height = b.height
            /\ a[2].width - a[3].width \in -1..1

C14_Witness ==
    /\ lay_out.done
    /\ lay_in.n = 3
    /\ \A i \in 1..Len(lay_out.areas) : NonEmpty(lay_out.areas[i])
    /\ lay_out.areas[3].x > lay_out.areas[2].x

\* the cells of the rows are the regions after the first, row after row,
\* the rows from top to bottom and the cells of a row from left to right
InRowOrder ==
    /\ Tail(lay_out.areas) = Flatten(lay_out.rows)
    /\ \A r \in 1..Len(lay_out.rows) : \A k \in 1..(Len(lay_out.rows[r]) - 1) :
         lay_out.rows[r][k].x <= lay_out.rows[r][k + 1].x
    /\ \A r \in 1..(Len(lay_out.rows) - 1) :
         lay_out.rows[r][1].y <= lay_out.rows[r + 1][1].y

\* C15 (as stated): for 2 to 10 results the right half has at most 3 rows,
\* every row holds between 1 and 3 cells, and the N - 1 remaining results
\* are placed in row order.
C15_RowsOfUpToThree ==
    (lay_out.done /\ lay_in.n >= 2) =>
        /\ Len(lay_out.rows) \in 1..3
        /\ \A r \in 1..Len(lay_out.rows) : Len(lay_out.rows[r]) \in 1..3
        /\ Len(Flatten(lay_out.rows)) = lay_in.n - 1
        /\ InRowOrder

\* C15 (amended): for 2 to 10 results the right half has at most 3 rows,
\* every row holds between 1 and 4 cells, a row of 4 being the third row
\* for 10 results only, and the N - 1 remaining results are placed in row
\* order.
C15_RowsOfUpToFour ==
    (lay_out.done /\ lay_in.n >= 2) =>
        /\ Len(lay_out.rows) \in 1..3
        /\ \A r \in 1..Len(lay_out.rows) :
             /\ Len(lay_out.rows[r]) \in 1..4
             /\ Len(lay_out.rows[r]) = 4 => (r = 3 /\ lay_in.n = MaxCells)
        /\ Len(Flatten(lay_out.rows)) = lay_in.n - 1
        /\ InRowOrder

C15_Witness ==
    /\ lay_out.done
    /\ lay_in.n = MaxCells
    /\ Len(lay_out.rows) = 3
    /\ Len(lay_out.rows[3]) = 4
    /\ \A k \in 1..4 : NonEmpty(lay_out.rows[3][k])

\* ---- the result window ----
WinTop == Min(Len(win_in.rank), SEARCH_RESULTS)

\* the position in embed_rank of the candidate with the given path
RankPosition(path) == CHOOSE k \in 1..Len(win_in.rank) : win_in.rank[k][1] = path

\* C16: search_results never holds more than K = SEARCH_RESULTS entries, a
\* draw never draws more than min(K, 10) cells, cell i shows
\* search_results[i], and cell 0, the one titled "Highest", shows the
\* top-ranked result.
C16_SlotsBounded ==
    /\ Len(win_out.results) <= SEARCH_RESULTS
    /\ Len(win_out.cells) <= Min(SEARCH_RESULTS, 10)
    /\ Len(win_out.cells) <= Len(win_out.results)
    /\ \A i \in 1..Len(win_out.cells) :
         /\ win_out.cells[i].file_path = win_out.results[i].file_path
         /\ win_out.cells[i].confidence = win_out.results[i].confidence
         /\ win_out.cells[i].highest <=> (i = 1)
    /\ win_out.cells # <<>> =>
         \A k \in 1..WinTop :
            win_in.rank[k][1] \in win_in.files =>
               RankPosition(win_out.cells[1].file_path) <= k

C16_Witness ==
    /\ win_out.pc = "drawn"
    /\ Len(win_in.rank) > SEARCH_RESULTS
    /\ Len(win_out.results) = SEARCH_RESULTS
    /\ Len(win_out.cells) = 10
    /\ win_out.cells[1].highest

\* C17: search_results is exactly the candidates among the top K of the
\* ranking whose file decoded, in rank order: a candidate that fails to
\* decode is left out and no candidate ranked below K takes its place.
C17_NoSubstitution ==
    win_out.pc # "start" =>
        /\ \A i \in 1..Len(win_out.results) :
             /\ win_out.results[i].file_path \in win_in.files
             /\ \E k \in 1..WinTop :
                  /\ win_in.rank[k][1] = win_out.results[i].file_path
                  /\ win_in.rank[k][2] = win_out.results[i].confidence
        /\ \A k \in 1..WinTop :
             win_in.rank[k][1] \in win_in.files =>
                \E i \in 1..Len(win_out.results) :
                   win_out.results[i].file_path = win_in.rank[k][1]
        /\ \A i, j \in 1..Len(win_out.results) :
             i < j => RankPosition(win_out.results[i].file_path)
                        < RankPosition(win_out.results[j].file_path)

C17_Witness ==
    /\ win_out.pc = "decoded"
    /\ Len(win_in.rank) > SEARCH_RESULTS
    /\ win_in.rank[SEARCH_RESULTS + 1][1] \in win_in.files
    /\ \E k \in 1..SEARCH_RESULTS : win_in.rank[k][1] \notin win_in.files
    /\ Len(win_out.results) = SEARCH_RESULTS - 1

\* ---- the mode popup and the cell cache ----
CheckedItems == {k \in 1..Len(modesel_items) : modesel_items[k].status = "Checked"}

\* C11: exactly one item of the mode list is Checked, after any sequence
\* of keys: opening the popup, Up, Down, Space, Enter, Esc, q.
C11_OneChecked == Cardinality(CheckedItems) = 1

C11_Witness ==
    /\ CheckedItems = {3}
    /\ current_element = "Filter"
    /\ ~modesel_open
    /\ selected = Some(2)

\* search_results without the cached regions
Entries(results) ==
    [i \in 1..Len(results) |->
        [file_path |-> results[i].file_path, confidence |-> results[i].confidence]]

\* C12 (as stated): a step of the mode popup that changes the active mode
\* leaves search_results empty.
C12_ModeChangeDiscards ==
    [][mode' # mode => search_results' = <<>>]_vars

\* C12 (amended): a step of the mode popup that changes the active mode
\* keeps the results and their order; when the popup closes, the cached
\* region of every result is dropped.
C12_ModeChangeKeeps ==
    [][(mode' # mode) =>
          /\ Entries(search_results') = Entries(search_results)
          /\ (~modesel_open' =>
                \A i \in 1..Len(search_results') : search_results'[i].last_area = None)]_vars

C12_Witness ==
    /\ mode # "Search"
    /\ ~modesel_open
    /\ loop_pc = "draw"
    /\ search_results # <<>>
    /\ \A i \in 1..Len(search_results) : search_results[i].last_area = None
    /\ \A i \in 1..Len(shown) : shown[i] # None

\* a step of App::draw
DrawStep == loop_pc = "draw" /\ loop_pc' = "events"

SameSize(a, b) == a.width = b.width /\ a.height = b.height

\* C18 (as stated): a draw re-encodes the image of a cell only if the cell
\* was never drawn or the size of its region differs from the size at the
\* previous draw; whatever keys come in between, a draw into an unchanged
\* region re-encodes nothing.
C18_EncodeOnlyOnResize ==
    [][DrawStep =>
          \A i \in 1..Len(shown') :
             (i - 1) \in encoded' =>
                (shown[i] = None \/ ~SameSize(shown[i][1], shown'[i][1]))]_vars

\* C18 (amended): a draw re-encodes the image of a cell exactly if the cell
\* was never drawn, or its region (position or size) differs from the
\* region at the previous draw, or the mode popup was closed since (which
\* drops the remembered region); no other key drops a remembered region.
C18_EncodeOnChangeOrInvalidation ==
    [][/\ DrawStep =>
            \A i \in 1..Len(shown') :
               (i - 1) \in encoded' <=>
                  \/ shown[i] = None
                  \/ shown[i] # shown'[i]
                  \/ search_results[i].last_area = None
       /\ \A i \in 1..Len(search_results) :
            (search_results[i].last_area # None /\ search_results'[i].last_area = None)
               => (current_element = "Modesel" /\ current_element' = "Filter")]_vars

C18_Witness ==
    /\ loop_pc = "events"
    /\ search_results # <<>>
    /\ encoded = {}
    /\ \A i \in 1..Len(search_results) :
         search_results[i].last_area # None /\ search_results[i].last_area = shown[i]

\* ---- the store during a query ----

\* C19: search() never writes images_embedding, in no mode and on no exit
\* (Some, None, panic); no step after the startup build writes it.
C19_StoreReadOnly == [][images_embedding' = images_embedding]_vars

C19_Witness ==
    /\ main_pc = "idle"
    /\ last_call.ret = "Some"
    /\ last_call.mode = "Ranking"
    /\ search_results # <<>>
    /\ images_embedding = [p \in Images |-> p]

\* C20: with an empty store, a search() whose query embeds returns Some of
\* the empty result list and adds no notification; search_results becomes
\* empty.
C20_EmptyStore ==
    [][(SearchEnds /\ images_embedding = <<>>
           /\ ~last_call'.failed /\ ~last_call'.malformed) =>
          /\ last_call'.ret = "Some"
          /\ search_results' = <<>>
          /\ notifications' = notifications]_vars

C20_Witness ==
    /\ images_embedding = <<>>
    /\ main_pc = "idle"
    /\ last_call.ret = "Some"
    /\ last_call.embeds > 0
    /\ search_results = <<>>
    /\ notifications = <<>>

\* ---- the store build ----

\* the loop is at an image whose embedding fails
AtFailingImage ==
    /\ build_pc = "embed"
    /\ build_index < Len(scan)
    /\ scan[build_index + 1] \notin embed_ok

\* C21: when embed_image fails for an image of the build, the image is
\* skipped: no record is written for it, nothing enters the map, the loop
\* goes on with the next file and the process does not abort.
C21_EmbedFailureSkipped ==
    [][AtFailingImage =>
          /\ build_pc' \in {"embed", "done"}
          /\ build_index' = build_index + 1
          /\ mem' = mem
          /\ disk' = disk]_vars

\* C22: for any set of images and any scan order, when the build is over
\* (and no record failed to be written) the store holds exactly the images
\* whose embedding succeeds.
C22_OneEntryPerEmbedded ==
    build_pc \in {"done", "embed_panic"} => DOMAIN mem = embed_ok

\* C23: embed_image is not called for an image that has a record: a second
\* build over an unchanged directory calls it zero times.
C23_NoEmbedOnHit ==
    [][(embed_calls' = embed_calls + 1) =>
          scan[build_index + 1] \notin DOMAIN disk]_vars

\* C24: in every state of the build, every image of the in-memory map has
\* its record written.
C24_PersistBeforeAdmit == \A p \in DOMAIN mem : p \in DOMAIN disk

\* ---- the scraper ----
Scrapes == 1..Len(ext_out)

\* the urls a scrape returned
Returned_urls(r) == {ext_out[r][i].url : i \in 1..Len(ext_out[r])}

HasModifier(url) == \E k \in 1..Len(url) : url[k] = "="

\* the part of a matched url before its first '='
Base(url) ==
    SubSeq(url, 1, CHOOSE n \in 0..Len(url) :
                      /\ \A k \in 1..n : url[k] # "="
                      /\ (n = Len(url) \/ url[n + 1] = "="))

\* C25: extract_image_urls returns each canonical url once: the returned
\* urls are the matched urls cut at their first '=', none of them holds a
\* '=', none is returned twice, and the size variants of one base are one
\* entry.
C25_CanonicalOnce ==
    \A r \in Scrapes :
        /\ Returned_urls(r) = {Base(FindIter(page, 1)[k]) : k \in 1..Len(FindIter(page, 1))}
        /\ \A u \in Returned_urls(r) : ~HasModifier(u)
        /\ \A i, j \in 1..Len(ext_out[r]) : i # j => ext_out[r][i].url # ext_out[r][j].url

C25_Witness ==
    /\ Len(ext_out) >= 1
    /\ \E i, j \in 1..Len(FindIter(page, 1)) :
          /\ FindIter(page, 1)[i] # FindIter(page, 1)[j]
          /\ HasModifier(FindIter(page, 1)[i]) /\ HasModifier(FindIter(page, 1)[j])
    /\ Len(ext_out[1]) = 1

\* the file a scrape gave a url
FileOf(r, u) == ext_out[r][CHOOSE i \in 1..Len(ext_out[r]) : ext_out[r][i].url = u].filename

\* C27: two scrapes of one page text give every canonical url the same
\* file name, and within a scrape no two urls get the same file name.
C27_SameNamesEveryScrape ==
    /\ \A r \in Scrapes : \A i, j \in 1..Len(ext_out[r]) :
          i # j => ext_out[r][i].filename # ext_out[r][j].filename
    /\ Len(ext_out) = 2 =>
          \A u \in Returned_urls(1) : FileOf(1, u) = FileOf(2, u)

\* ---- main() and the scrape ----
FailedDownloads == {k \in 1..Len(downloads) : ~downloads[k].ok}

\* neither the store build nor the UI has started
AppNotStarted == build_pc = "none" /\ cli_pc # "running"

\* C26: the scrape is fail-fast: once a download has failed no later url is
\* downloaded, scrape returns the error, and the process exits with status
\* 1 without starting the store build or the UI.
C26_FailFast ==
    [][/\ FailedDownloads' # {} =>
            /\ FailedDownloads' = {Len(downloads')}
            /\ cli_pc' \in {"scrape_err", "exited"}
            /\ AppNotStarted'
       /\ cli_pc = "scrape_err" => (cli_pc' = "exited" /\ exit_code' = Some(1))]_vars

C26_Witness ==
    /\ cli_pc = "exited"
    /\ exit_code = Some(1)
    /\ FailedDownloads = {1}
    /\ Len(image_urls) > 1
    /\ AppNotStarted

\* the scrape was run and returned an error
ScrapeFailed == cli_pc = "scrape_err"

\* C28: the program exits with status 1, without starting the store build
\* or the UI, when the model path is missing, when it does not exist, and
\* when --photos is given and the scrape fails.
C28_ExitOne ==
    [][/\ (cli_pc = "start" /\ Len(argv) = 0) => (exit_code' = Some(1) /\ cli_pc' = "exited")
       /\ (cli_pc = "model" /\ argv[1] = "nomodel") =>
             (exit_code' = Some(1) /\ cli_pc' = "exited")
       /\ ScrapeFailed => (exit_code' = Some(1) /\ cli_pc' = "exited")
       /\ cli_pc' = "exited" => AppNotStarted'
       /\ ~AppNotStarted' =>
             /\ Len(argv) >= 1 /\ argv[1] # "nomodel"
             /\ exit_code' = None
             /\ FailedDownloads' = {}]_vars

C28_Witness ==
    /\ cli_pc = "exited"
    /\ exit_code = Some(1)
    /\ Len(argv) >= 3
    /\ argv[1] = "nomodel"
    /\ argv[2] = "--photos"
    /\ downloads = <<>>
    /\ AppNotStarted

\* ---- the mode field ----
\* the SearchEnum of each item of the mode list, in the order of the list
ModeNames == <<"Search", "NegativePrompt", "Ranking", "Image2Image">>

\* C29: in every reachable state the mode field is the search type of the
\* single Checked item of the mode list, so the mode search() dispatches on
\* is the mode whose help text is drawn.
C29_ModeAgrees ==
    \E k \in 1..Len(modesel_items) :
        /\ CheckedItems = {k}
        /\ mode = ModeNames[k]
        /\ CheckedMode(modesel_items) = OptionNames[k]

C29_Witness ==
    /\ CheckedItems = {4}
    /\ mode = "Image2Image"
    /\ modesel_open
    /\ current_element = "Modesel"

\* ---- the cursor ----
\* C30: after any sequence of enter_char, delete_char, delete_right,
\* move_cursor_left, move_cursor_right and clear_search, the cursor is at
\* most the number of characters of the search string (and at least 0).
C30_CursorInRange == 0 <= char_index /\ char_index <= Len(search)

\* the string s without its character number ci (from 0), s itself when
\* there is no such character
WithoutChar(s, ci) == IF ci < Len(s) THEN Take(s, ci) \o Skip(s, ci + 1) ELSE s

\* C31: for every search string, multi-byte characters included, and every
\* cursor position, delete_right removes exactly the character at the
\* cursor (nothing when the cursor is at the end), leaves char_index as it
\* is and does not panic.
C31_DeleteRightAtCursor ==
    [][DeleteRight =>
          /\ main_pc' # "panicked"
          /\ char_index' = char_index
          /\ search' = WithoutChar(search, char_index)]_vars

\* ---- the toasts ----
\* C32: for every text length and every terminal width the position of a
\* toast is x = width of the terminal - (text length + 4) - 1 and
\* y = index * 4 + 1 within u16: no operation underflows or overflows,
\* and drawing does not panic.
C32_ToastPosition ==
    /\ toast_out.pc # "panicked"
    /\ \A i \in 1..Len(toast_out.areas) :
         /\ toast_out.areas[i].x = toast_in.size_x - (toast_in.lens[i] + 4) - 1
         /\ toast_out.areas[i].y = (i - 1) * 4 + 1

====
